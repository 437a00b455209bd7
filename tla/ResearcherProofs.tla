-------------------------- MODULE ResearcherProofs --------------------------
(***************************************************************************)
(* Theorems about Researcher, for every number of genomes and threads, any *)
(* number of attempts, and servers that accept any of the modes.           *)
(*                                                                         *)
(* Modes only go, so what is true of a call because a mode is off stays    *)
(* true whatever the other threads do.  A call remembers nothing of the    *)
(* modes it was made under but its format; the invariant says what that    *)
(* format tells of the modes.                                              *)
(***************************************************************************)
EXTENDS Researcher, TLAPS

Modes == [schema : BOOLEAN, object : BOOLEAN, json : BOOLEAN]
Calls == [at : {"idle", "send", "rejected", "done", "failed"}, format : Formats,
          attempt : Nat, turns : Nat, errors : Nat]

CallsTypeOK ==
  /\ accepted \in [Clients -> SUBSET Formats]
  /\ mode \in [Clients -> Modes]
  /\ call \in [Callers -> Calls]

\* Modes m, at a server that accepts a: only what is rejected is off.
ModesOK(m, a) ==
  /\ "json_schema" \in a => m.schema
  /\ "json_object" \in a => m.object
  /\ "text" \in a => m.json

\* The modes n are what is left of m.
Shrunk(m, n) ==
  /\ n.schema => m.schema
  /\ n.object => m.object
  /\ n.json => m.json

\* A call x under the modes m.  An object is asked for only when no schema can be;
\* a mode whose rejection the call has seen is off; and with a server that takes
\* plain text, each renegotiation has used up one of the two other formats.
CallOK(x, m, a) ==
  /\ x.at \in {"send", "rejected"} /\ x.format = "json_object" => ~m.schema
  /\ x.at = "rejected" =>
       /\ x.format \notin a
       /\ x.format = "json_schema" => ~m.schema
       /\ x.format = "json_object" => ~m.object
  /\ x.at \in {"send", "rejected"} /\ "text" \in a =>
       /\ x.turns <= 2
       /\ x.turns >= 1 => x.format # "json_schema"
       /\ x.turns >= 2 => x.format = "text"
  /\ "text" \in a => x.attempt = x.errors

NegotiationInv ==
  /\ CallsTypeOK
  /\ \A k \in Clients : ModesOK(mode[k], accepted[k])
  /\ \A c \in Callers : CallOK(call[c], mode[Client(c)], accepted[Client(c)])

-----------------------------------------------------------------------------

LEMMA ClientType == ASSUME NEW c \in Callers PROVE Client(c) \in Clients
BY DEF Client, Clients

LEMMA OfferType ==
  ASSUME NEW m \in Modes
  PROVE  /\ Offer(m) \in Formats
         /\ Offer(m) = "json_object" => ~m.schema
         /\ Offer(m) = "json_schema" => m.schema
         /\ Offer(m) = "json_object" => m.object
BY DEF Offer, Formats, Modes

\* A new call knows nothing yet.
LEMMA AskingIsOK ==
  ASSUME NEW k \in Clients, mode[k] \in Modes, NEW a
  PROVE  Asking(k) \in Calls /\ CallOK(Asking(k), mode[k], a)
<1>1. Offer(mode[k]) \in Formats /\ (Offer(mode[k]) = "json_object" => ~mode[k].schema)
  BY OfferType
<1>. DEFINE y == [Idle EXCEPT !.at = "send"]
<1>2. y = [at |-> "send", format |-> "text", attempt |-> 0, turns |-> 0, errors |-> 0]
  BY DEF Idle
<1>3. Asking(k) = [y EXCEPT !.format = Offer(mode[k])]
  BY Zenon DEF Asking
<1>. HIDE DEF y
<1>4. Asking(k) = [at |-> "send", format |-> Offer(mode[k]), attempt |-> 0,
                   turns |-> 0, errors |-> 0]
  BY <1>2, <1>3
<1>. QED BY <1>1, <1>4 DEF Calls, CallOK

LEMMA IdleIsOK ==
  ASSUME NEW m, NEW a
  PROVE  Idle \in Calls /\ CallOK(Idle, m, a)
BY DEF Idle, Calls, CallOK, Formats

\* What another thread switches off takes nothing from a call.
LEMMA ShrunkKeepsCalls ==
  ASSUME NEW x, NEW m, NEW n, NEW a, CallOK(x, m, a), Shrunk(m, n)
  PROVE  CallOK(x, n, a)
BY DEF CallOK, Shrunk

\* The shape of all steps: one caller's call and its client's modes change.
LEMMA OneCallChanges ==
  ASSUME NegotiationInv, NEW c \in Callers, NEW x \in Calls, NEW m \in Modes,
         UNCHANGED accepted,
         mode' = [mode EXCEPT ![Client(c)] = m],
         call' = [call EXCEPT ![c] = x],
         ModesOK(m, accepted[Client(c)]),
         Shrunk(mode[Client(c)], m),
         CallOK(x, m, accepted[Client(c)])
  PROVE  NegotiationInv'
<1>. Client(c) \in Clients
  BY ClientType
<1>1. CallsTypeOK'
  BY DEF NegotiationInv, CallsTypeOK
<1>2. \A k \in Clients : ModesOK(mode'[k], accepted'[k])
  BY DEF NegotiationInv, CallsTypeOK
<1>3. ASSUME NEW d \in Callers
      PROVE  CallOK(call'[d], mode'[Client(d)], accepted'[Client(d)])
  <2>. Client(d) \in Clients
    BY ClientType
  <2>1. CASE d = c
    BY <2>1 DEF NegotiationInv, CallsTypeOK
  <2>2. CASE d # c
    <3>1. call'[d] = call[d]
      BY <2>2 DEF NegotiationInv, CallsTypeOK
    <3>2. Shrunk(mode[Client(d)], mode'[Client(d)])
      BY DEF NegotiationInv, CallsTypeOK, Shrunk
    <3>3. CallOK(call[d], mode[Client(d)], accepted[Client(d)])
      BY DEF NegotiationInv
    <3>. QED BY <3>1, <3>2, <3>3, ShrunkKeepsCalls
  <2>. QED BY <2>1, <2>2
<1>. QED BY <1>1, <1>2, <1>3 DEF NegotiationInv

\* ... or the modes stay as they are.
LEMMA OnlyCallChanges ==
  ASSUME NegotiationInv, NEW c \in Callers, NEW x \in Calls,
         UNCHANGED <<accepted, mode>>,
         call' = [call EXCEPT ![c] = x],
         CallOK(x, mode[Client(c)], accepted[Client(c)])
  PROVE  NegotiationInv'
<1>. Client(c) \in Clients
  BY ClientType
<1>. DEFINE m == mode[Client(c)]
<1>1. m \in Modes /\ mode' = [mode EXCEPT ![Client(c)] = m]
  BY DEF NegotiationInv, CallsTypeOK
<1>2. ModesOK(m, accepted[Client(c)]) /\ Shrunk(m, m)
  BY DEF NegotiationInv, Shrunk
<1>. HIDE DEF m
<1>. QED BY <1>1, <1>2, OneCallChanges DEF m

-----------------------------------------------------------------------------
(* One lemma per action                                                    *)

LEMMA InitNegotiation == Init => NegotiationInv
<1>. SUFFICES ASSUME Init PROVE NegotiationInv
  OBVIOUS
<1>1. PICK s \in SUBSET Formats : accepted = [k \in Clients |-> s]
  BY DEF Init
<1>2. CallsTypeOK
  BY <1>1, IdleIsOK DEF Init, CallsTypeOK, Modes
<1>3. \A k \in Clients : ModesOK(mode[k], accepted[k])
  BY DEF Init, ModesOK
<1>4. \A c \in Callers : CallOK(call[c], mode[Client(c)], accepted[Client(c)])
  BY IdleIsOK DEF Init
<1>. QED BY <1>2, <1>3, <1>4 DEF NegotiationInv

LEMMA AnswerNegotiates ==
  ASSUME NegotiationInv, NEW c \in Callers, Answer(c) PROVE NegotiationInv'
<1>1. PICK at \in {"done", "failed"} : call' = [call EXCEPT ![c].at = at]
  BY DEF Answer, Parsed
<1>. DEFINE x == [call[c] EXCEPT !.at = at]
<1>2. call[c] \in Calls /\ CallOK(call[c], mode[Client(c)], accepted[Client(c)])
  BY DEF NegotiationInv, CallsTypeOK
<1>3. x \in Calls /\ CallOK(x, mode[Client(c)], accepted[Client(c)])
  BY <1>2 DEF Calls, CallOK
<1>4. call' = [call EXCEPT ![c] = x]
  BY <1>1
<1>5. UNCHANGED <<accepted, mode>>
  BY DEF Answer, rest
<1>. HIDE DEF x
<1>. QED BY <1>3, <1>4, <1>5, OnlyCallChanges

LEMMA RejectNegotiates ==
  ASSUME NegotiationInv, NEW c \in Callers, Reject(c) PROVE NegotiationInv'
<1>. DEFINE k == Client(c)
            f == call[c].format
            x == [call[c] EXCEPT !.at = "rejected"]
            m == Switched(mode[k], f)
<1>. k \in Clients
  BY ClientType
<1>1. /\ call[c] \in Calls /\ CallOK(call[c], mode[k], accepted[k])
      /\ mode[k] \in Modes /\ ModesOK(mode[k], accepted[k])
  BY DEF NegotiationInv, CallsTypeOK
<1>2. f \in Formats /\ f \notin accepted[k] /\ call[c].at = "send"
  BY <1>1 DEF Reject, Calls
<1>3. /\ m \in Modes /\ Shrunk(mode[k], m) /\ ModesOK(m, accepted[k])
      /\ f = "json_schema" => ~m.schema
      /\ f = "json_object" => ~m.object
  BY <1>1, <1>2 DEF Switched, Modes, Shrunk, ModesOK, Formats
<1>4. CallOK(call[c], m, accepted[k])
  BY <1>1, <1>3, ShrunkKeepsCalls
<1>5. x \in Calls /\ x.at = "rejected" /\ x.format = f /\ x.turns = call[c].turns
      /\ x.attempt = call[c].attempt /\ x.errors = call[c].errors
  BY <1>1 DEF Calls
<1>6. CallOK(x, m, accepted[k])
  BY <1>2, <1>3, <1>4, <1>5 DEF CallOK
<1>7. UNCHANGED accepted /\ mode' = [mode EXCEPT ![k] = m]
      /\ call' = [call EXCEPT ![c] = x]
  BY DEF Reject, rest
<1>. HIDE DEF x, m
<1>. QED BY <1>3, <1>5, <1>6, <1>7, OneCallChanges

\* What an attempt that failed leaves of a call.
LEMMA FailedFacts ==
  ASSUME NegotiationInv, NEW c \in Callers, NEW more \in {0, 1}
  PROVE  /\ Failed(c, more) \in Calls
         /\ Failed(c, more).at \in {"send", "failed"}
         /\ Failed(c, more).format = call[c].format
         /\ Failed(c, more).turns = call[c].turns
         /\ Failed(c, more).attempt = call[c].attempt + 1
         /\ Failed(c, more).errors = call[c].errors + more
<1>. DEFINE at == IF call[c].attempt + 1 >= MaxRetries THEN "failed" ELSE "send"
            y == [call[c] EXCEPT !.attempt = @ + 1]
            z == [y EXCEPT !.errors = @ + more]
<1>1. call[c] \in Calls /\ at \in {"send", "failed"}
  BY DEF NegotiationInv, CallsTypeOK
<1>2. y \in Calls /\ y.attempt = call[c].attempt + 1 /\ y.errors = call[c].errors
      /\ y.format = call[c].format /\ y.turns = call[c].turns
  BY <1>1 DEF Calls
<1>3. z = [y EXCEPT !.errors = y.errors + more]
  BY Zenon
<1>. HIDE DEF y, at
<1>4. z \in Calls /\ z.attempt = y.attempt /\ z.errors = y.errors + more
      /\ z.format = y.format /\ z.turns = y.turns
  BY <1>2, <1>3 DEF Calls
<1>. HIDE DEF z
<1>5. Failed(c, more) = [z EXCEPT !.at = at]
  BY Zenon DEF Failed, y, z, at
<1>. QED BY <1>1, <1>2, <1>4, <1>5 DEF Calls

LEMMA FaultNegotiates ==
  ASSUME NegotiationInv, NEW c \in Callers, Fault(c) PROVE NegotiationInv'
<1>. DEFINE x == Failed(c, 1)
<1>1. /\ call[c] \in Calls
      /\ CallOK(call[c], mode[Client(c)], accepted[Client(c)])
      /\ call[c].at = "send"
  BY DEF NegotiationInv, CallsTypeOK, Fault
<1>2. x \in Calls /\ x.at \in {"send", "failed"} /\ x.format = call[c].format
      /\ x.turns = call[c].turns /\ x.attempt = call[c].attempt + 1
      /\ x.errors = call[c].errors + 1
  BY FailedFacts
<1>3. call' = [call EXCEPT ![c] = x] /\ UNCHANGED <<accepted, mode>>
  BY DEF Fault, rest
<1>. HIDE DEF x
<1>4. CallOK(x, mode[Client(c)], accepted[Client(c)])
  BY <1>1, <1>2 DEF CallOK
<1>. QED BY <1>2, <1>3, <1>4, OnlyCallChanges

\* A second look at the modes.  With a server that takes text the format just
\* rejected is a schema or an object, neither is offered again, and the turn is free.
LEMMA RenegotiateNegotiates ==
  ASSUME NegotiationInv, FreeTurns >= 2, NEW c \in Callers, Renegotiate(c)
  PROVE  NegotiationInv'
<1>. DEFINE k == Client(c)
            a == accepted[k]
            f == call[c].format
            again == Offer(mode[k]) = f
            m == IF again THEN [mode[k] EXCEPT !.json = FALSE] ELSE mode[k]
            x == [Turned(c) EXCEPT !.format = Offer(m)]
<1>. k \in Clients
  BY ClientType
<1>1. /\ call[c] \in Calls /\ CallOK(call[c], mode[k], a)
      /\ mode[k] \in Modes /\ ModesOK(mode[k], a)
      /\ call[c].at = "rejected"
  BY DEF NegotiationInv, CallsTypeOK, Renegotiate
<1>2. f \in Formats /\ f \notin a
      /\ (f = "json_schema" => ~mode[k].schema)
      /\ (f = "json_object" => ~mode[k].object /\ ~mode[k].schema)
  BY <1>1 DEF CallOK, Calls
<1>3. again => f = "text" /\ "text" \notin a
  BY <1>1, <1>2, OfferType DEF Formats
<1>4. m \in Modes /\ Shrunk(mode[k], m) /\ ModesOK(m, a)
  BY <1>1, <1>3 DEF Modes, Shrunk, ModesOK
<1>5. CallOK(call[c], m, a)
  BY <1>1, <1>4, ShrunkKeepsCalls
<1>. HIDE DEF m
<1>6. /\ Offer(m) \in Formats
      /\ Offer(m) = "json_object" => ~m.schema
      /\ Offer(m) = "json_schema" => m.schema
      /\ Offer(m) = "json_object" => m.object
  BY <1>4, OfferType
<1>7. /\ Turned(c) \in Calls
      /\ Turned(c).at \in {"send", "failed"}
      /\ Turned(c).turns = call[c].turns + 1
      /\ call[c].turns < FreeTurns =>
           Turned(c).attempt = call[c].attempt /\ Turned(c).errors = call[c].errors
  <2>1. CASE call[c].turns < FreeTurns
    <3>. DEFINE y == [call[c] EXCEPT !.at = "send"]
    <3>1. y \in Calls /\ y.at = "send" /\ y.turns = call[c].turns
          /\ y.attempt = call[c].attempt /\ y.errors = call[c].errors
      BY <1>1 DEF Calls
    <3>2. Turned(c) = [y EXCEPT !.turns = y.turns + 1]
      BY <2>1, <3>1 DEF Turned
    <3>. HIDE DEF y
    <3>. QED BY <2>1, <3>1, <3>2 DEF Calls
  <2>2. CASE ~(call[c].turns < FreeTurns)
    <3>. DEFINE y == Failed(c, 0)
    <3>1. y \in Calls /\ y.at \in {"send", "failed"} /\ y.turns = call[c].turns
      BY FailedFacts
    <3>2. Turned(c) = [y EXCEPT !.turns = y.turns + 1]
      BY <2>2 DEF Turned
    <3>. HIDE DEF y
    <3>. QED BY <2>2, <3>1, <3>2 DEF Calls
  <2>. QED BY <2>1, <2>2
<1>8. /\ x \in Calls /\ x.at \in {"send", "failed"} /\ x.format = Offer(m)
      /\ x.turns = call[c].turns + 1
      /\ call[c].turns < FreeTurns =>
           x.attempt = call[c].attempt /\ x.errors = call[c].errors
  BY <1>6, <1>7 DEF Calls
<1>9. UNCHANGED accepted /\ mode' = [mode EXCEPT ![k] = m]
      /\ call' = [call EXCEPT ![c] = x]
  BY DEF Renegotiate, rest, m
<1>. HIDE DEF x
<1>10. CallOK(x, m, a)
  <2>1. x.at \in {"send", "rejected"} /\ x.format = "json_object" => ~m.schema
    BY <1>6, <1>8
  <2>2. x.at # "rejected"
    BY <1>8
  <2>3. ASSUME "text" \in a
        PROVE  /\ x.turns <= 2
               /\ x.turns >= 1 => x.format # "json_schema"
               /\ x.turns >= 2 => x.format = "text"
               /\ x.attempt = x.errors
    <3>1. f \in {"json_schema", "json_object"}
      BY <1>2, <2>3 DEF Formats
    <3>2. call[c].turns \in Nat /\ call[c].turns <= 1 /\ ~m.schema
      BY <1>1, <1>2, <1>4, <2>3, <3>1 DEF CallOK, Calls, Shrunk
    <3>3. call[c].turns >= 1 => f = "json_object" /\ ~m.object
      BY <1>1, <1>2, <1>4, <2>3, <3>1 DEF CallOK, Shrunk
    <3>4. call[c].turns < FreeTurns
      BY <3>2, ResearcherAssumption
    <3>5. call[c].attempt = call[c].errors
      BY <1>1, <2>3 DEF CallOK
    <3>6. x.format # "json_schema" /\ (call[c].turns >= 1 => x.format = "text")
      BY <1>6, <1>8, <3>2, <3>3 DEF Formats
    <3>. QED BY <1>8, <3>2, <3>4, <3>5, <3>6
  <2>. QED BY <2>1, <2>2, <2>3 DEF CallOK
<1>. QED BY <1>4, <1>8, <1>9, <1>10, OneCallChanges DEF m

\* A caller starts over, or rests.
LEMMA RestartNegotiates ==
  ASSUME NegotiationInv, NEW c \in Callers, UNCHANGED <<accepted, mode>>,
         \/ call' = [call EXCEPT ![c] = Idle]
         \/ call' = [call EXCEPT ![c] = Asking(Client(c))]
  PROVE  NegotiationInv'
<1>. Client(c) \in Clients /\ mode[Client(c)] \in Modes
  BY ClientType DEF NegotiationInv, CallsTypeOK
<1>1. CASE call' = [call EXCEPT ![c] = Idle]
  BY <1>1, IdleIsOK, OnlyCallChanges
<1>2. CASE call' = [call EXCEPT ![c] = Asking(Client(c))]
  BY <1>2, AskingIsOK, OnlyCallChanges
<1>. QED BY <1>1, <1>2

LEMMA CallersAre ==
  /\ Main \in Callers /\ Client(Main) = "synthesis"
  /\ \A i \in 1..Jobs : i \in Callers /\ i # Main /\ Client(i) = "postmortem"
BY ResearcherAssumption DEF Callers, Main, Client

LEMMA NextNegotiates ==
  ASSUME NegotiationInv, FreeTurns >= 2, [Next]_vars PROVE NegotiationInv'
<1>1. ASSUME NEW c \in Callers, Answer(c) \/ Reject(c) \/ Renegotiate(c) \/ Fault(c)
      PROVE  NegotiationInv'
  BY <1>1, AnswerNegotiates, RejectNegotiates, RenegotiateNegotiates, FaultNegotiates
<1>2. ASSUME NEW i \in 1..Jobs, StartJob(i) PROVE NegotiationInv'
  BY <1>2, CallersAre, RestartNegotiates DEF StartJob, rest
<1>3. ASSUME NEW i \in 1..Jobs, Collect(i) PROVE NegotiationInv'
  BY <1>3, CallersAre, RestartNegotiates DEF Collect
<1>4. CASE StartSynthesis
  BY <1>4, CallersAre, RestartNegotiates DEF StartSynthesis
<1>5. CASE EndSynthesis
  BY <1>5, CallersAre, RestartNegotiates DEF EndSynthesis, Ask
<1>6. CASE AcceptEdit
  BY <1>6, CallersAre, RestartNegotiates DEF AcceptEdit, Bear, Ask
<1>7. CASE RejectEdit
  BY <1>7, CallersAre, RestartNegotiates DEF RejectEdit, Bear, Ask
<1>8. CASE UNCHANGED vars
  BY <1>8 DEF vars, NegotiationInv, CallsTypeOK
<1>. QED BY <1>1, <1>2, <1>3, <1>4, <1>5, <1>6, <1>7, <1>8 DEF Next

-----------------------------------------------------------------------------

\* The modes and calls of any number of threads, over any server: modes only go,
\* and a call's format tells which.  (llm.py:122-203)
THEOREM NegotiationIsConsistent == FreeTurns >= 2 /\ Spec => []NegotiationInv
<1>. SUFFICES ASSUME FreeTurns >= 2 PROVE Spec => []NegotiationInv
  OBVIOUS
<1>1. Init => NegotiationInv
  BY InitNegotiation
<1>2. NegotiationInv /\ [Next]_vars => NegotiationInv'
  BY NextNegotiates
<1>. QED BY <1>1, <1>2, PTL DEF Spec

\* With two free renegotiations or more (the code has three), a server that takes
\* plain text never costs a call an attempt.  (llm.py:158-178)
THEOREM NegotiationStaysFree == FreeTurns >= 2 /\ Spec => []NegotiationIsFree
<1>1. NegotiationInv => NegotiationIsFree
  BY DEF NegotiationInv, CallOK, NegotiationIsFree
<1>. QED BY <1>1, NegotiationIsConsistent, PTL

\* No mode the server accepts is ever given up.  (llm.py:162-178)
THEOREM AcceptedModesStay == FreeTurns >= 2 /\ Spec => []OnlyRejectedModesGo
<1>1. NegotiationInv => OnlyRejectedModesGo
  BY DEF NegotiationInv, ModesOK, OnlyRejectedModesGo
<1>. QED BY <1>1, NegotiationIsConsistent, PTL
=============================================================================
