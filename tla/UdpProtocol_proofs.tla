------------------------ MODULE UdpProtocol_proofs ------------------------
(***************************************************************************)
(* Proofs about UdpProtocol, for every set of commands, every number of    *)
(* retries and every bound.                                                *)
(***************************************************************************)
EXTENDS UdpProtocol, SequenceTheorems, FiniteSetTheorems, TLAPS

\* A datagram that some attempt of some call has sent.
Sent(p) == p.call \in 1 .. Last /\ p.attempt <= calls[p.call].attempts

\* Every datagram is in one place: under way to the server, in the hands of one of its
\* threads, or answered; and it was sent.
OnePlace ==
  /\ \A p \in toServer : Sent(p) /\ p \notin handled
  /\ \A p \in handled : Sent(p)
  /\ \A k \in Kind : server[k].at = "got" =>
       /\ server[k].job \in Packet
       /\ Sent(server[k].job)
       /\ KindOf(server[k].job) = k
       /\ server[k].job \notin handled
       /\ server[k].job \notin toServer

\* The answers under way are answers, and not yet used.
AnswersUnderWay ==
  /\ toClient \subseteq handled
  /\ \A c \in Answered : calls[c].by \notin toClient

\* The answers given so far to the datagrams of one kind.
Given(k) == {p \in handled : KindOf(p) = k}

\* The server has counted every answer that it gave, but for the one it is about to count.
AnswersCounted ==
  /\ IsFiniteSet(handled)
  /\ \A k \in Kind :
       Cardinality(Given(k)) <= sent[k] + (IF server[k].at = "answered" THEN 1 ELSE 0)

IInv == TypeOK /\ OnePlace /\ AnswersUnderWay /\ AnswersAreReal /\ StaleAnswersNeedRetries
        /\ AnswersCounted
----------------------------------------------------------------------------
(* What the steps do to the calls.                                         *)

\* The conjuncts of TypeOK that are about the calls.
CallsTyped ==
  /\ calls \in Seq(CallRecord)
  /\ \A c \in 1 .. Last : /\ calls[c].attempts <= Retries[calls[c].kind] + 1
                          /\ calls[c].outcome = "pending" => c = Last

\* The pending call is the last one, and it is a record of the calls.
LEMMA LastCall ==
  ASSUME TypeOK, Waiting
  PROVE  /\ Last \in 1 .. Last
         /\ Last \in Nat
         /\ calls[Last] \in CallRecord
         /\ calls[Last].attempts <= Retries[calls[Last].kind] + 1
  <1>1. calls \in Seq(CallRecord) /\ Last \in Nat /\ Last > 0
    BY DEF TypeOK, Waiting, Last
  <1>2. Last \in 1 .. Last
    BY <1>1
  <1>3. calls[Last] \in CallRecord
    BY <1>1, <1>2, ElementOfSeq DEF Last
  <1> QED BY <1>1, <1>2, <1>3 DEF TypeOK

\* A step that rewrites the last call, with a record that keeps within its attempts, keeps
\* the calls well formed and leaves the earlier ones alone.
LEMMA RewriteLast ==
  ASSUME TypeOK, Waiting, NEW r \in CallRecord,
         r.attempts <= Retries[r.kind] + 1,
         calls' = [calls EXCEPT ![Last] = r]
  PROVE  /\ calls' \in Seq(CallRecord)
         /\ Last' = Last
         /\ \A c \in 1 .. Last : calls'[c] = IF c = Last THEN r ELSE calls[c]
         /\ \A c \in 1 .. Last' : /\ calls'[c].attempts <= Retries[calls'[c].kind] + 1
                                  /\ calls'[c].outcome = "pending" => c = Last'
  <1>1. Last \in 1 .. Last /\ Last \in Nat
    BY LastCall
  <1>2. calls \in Seq(CallRecord)
    BY DEF TypeOK
  <1>3. /\ calls' \in Seq(CallRecord)
        /\ Len(calls') = Last
        /\ \A c \in 1 .. Last : calls'[c] = IF c = Last THEN r ELSE calls[c]
    BY <1>1, <1>2, ExceptSeq DEF Last
  <1>4. Last' = Last
    BY <1>3 DEF Last
  <1> QED BY <1>1, <1>3, <1>4 DEF TypeOK

\* What Call does to the calls.
LEMMA NewCall ==
  ASSUME TypeOK, NEW k \in Kind, NEW cmd \in Cmd, Call(k, cmd)
  PROVE  /\ calls' \in Seq(CallRecord)
         /\ Last \in Nat
         /\ Last' = Last + 1
         /\ \A c \in 1 .. Last : calls'[c] = calls[c] /\ calls[c].outcome # "pending"
         /\ calls'[Last + 1].kind = k /\ calls'[Last + 1].cmd = cmd
         /\ calls'[Last + 1].attempts = 1 /\ calls'[Last + 1].outcome = "pending"
  <1> DEFINE r == [kind |-> k, cmd |-> cmd, attempts |-> 1, outcome |-> "pending",
                   by |-> NoPacket]
  <1>1. calls \in Seq(CallRecord) /\ Last \in Nat
    BY DEF TypeOK, Last
  <1>2. r \in CallRecord
    BY DEF CallRecord, NoPacket
  <1>3. calls' = Append(calls, r)
    BY DEF Call
  <1>4. /\ calls' \in Seq(CallRecord)
        /\ Len(calls') = Last + 1
        /\ \A c \in 1 .. Last : calls'[c] = calls[c]
        /\ calls'[Last + 1] = r
    BY <1>1, <1>2, <1>3, AppendProperties DEF Last
  <1>5. \A c \in 1 .. Last : calls[c].outcome # "pending"
    BY <1>1 DEF Call, TypeOK, Waiting
  <1>6. Last' = Last + 1
    BY <1>4 DEF Last
  <1> QED BY <1>1, <1>4, <1>5, <1>6

\* The record that rewrites the last call, as Rewritten builds it.
LastAs(attempts, outcome, by) ==
  [kind |-> calls[Last].kind, cmd |-> calls[Last].cmd,
   attempts |-> attempts, outcome |-> outcome, by |-> by]

\* Retry, GiveUp and a matching answer rewrite the last call; what they write keeps within
\* the attempts.
LEMMA LastRewritten ==
  ASSUME TypeOK, Waiting, NEW a \in Nat \ {0}, a <= Retries[calls[Last].kind] + 1,
         NEW o \in {"pending", "answered", "timeout"}, NEW b \in Packet \cup {NoPacket},
         calls' = Rewritten(a, o, b)
  PROVE  /\ CallsTyped'
         /\ Last' = Last
         /\ Last \in 1 .. Last
         /\ \A c \in 1 .. Last : calls'[c] = IF c = Last THEN LastAs(a, o, b) ELSE calls[c]
  <1>1. calls[Last] \in CallRecord /\ Last \in 1 .. Last
    BY LastCall
  <1>2. LastAs(a, o, b) \in CallRecord
    BY <1>1 DEF CallRecord, LastAs
  <1>3. LastAs(a, o, b).attempts <= Retries[LastAs(a, o, b).kind] + 1
    BY DEF LastAs
  <1>4. calls' = [calls EXCEPT ![Last] = LastAs(a, o, b)]
    BY DEF Rewritten, LastAs
  <1>5. /\ calls' \in Seq(CallRecord)
        /\ Last' = Last
        /\ \A c \in 1 .. Last : calls'[c] = IF c = Last THEN LastAs(a, o, b) ELSE calls[c]
        /\ \A c \in 1 .. Last' : /\ calls'[c].attempts <= Retries[calls'[c].kind] + 1
                                 /\ calls'[c].outcome = "pending" => c = Last'
    BY <1>2, <1>3, <1>4, RewriteLast
  <1>6. CallsTyped'
    BY <1>5 DEF CallsTyped
  <1> QED BY <1>1, <1>5, <1>6

\* The attempts of the pending call are within its retries, and Retry has one left.
LEMMA AttemptsLeft ==
  ASSUME TypeOK, Waiting
  PROVE  /\ calls[Last].attempts \in Nat \ {0}
         /\ calls[Last].attempts + 1 \in Nat \ {0}
         /\ calls[Last].attempts <= Retries[calls[Last].kind] + 1
         /\ Retry => calls[Last].attempts + 1 <= Retries[calls[Last].kind] + 1
  <1>1. /\ calls[Last] \in CallRecord
        /\ calls[Last].attempts <= Retries[calls[Last].kind] + 1
    BY LastCall
  <1>2. calls[Last].attempts \in Nat \ {0} /\ Retries[calls[Last].kind] \in Nat
    BY <1>1, RetriesAssumption DEF CallRecord
  <1>3. Retry => calls[Last].attempts < Retries[calls[Last].kind] + 1
    BY DEF Retry
  <1> QED BY <1>1, <1>2, <1>3

----------------------------------------------------------------------------
(* Type correctness.                                                       *)

\* The initial states have the types.
LEMMA TypeInit == Init => TypeOK
  <1> SUFFICES ASSUME Init PROVE TypeOK
    OBVIOUS
  <1>1. calls \in Seq(CallRecord) /\ Last = 0
    BY EmptySeq DEF Init, Last
  <1> QED BY <1>1, BoundAssumption DEF Init, TypeOK, NoPacket

\* A step of the network or of the server leaves the calls as they are.
LEMMA CallsUntouched ==
  ASSUME TypeOK, calls' = calls
  PROVE  CallsTyped' /\ Last' = Last
  BY DEF TypeOK, CallsTyped, Last

\* Every step of the protocol keeps the types.
LEMMA TypeStep == TypeOK /\ [Next]_vars => TypeOK'
  <1> SUFFICES ASSUME TypeOK, [Next]_vars PROVE TypeOK'
    OBVIOUS
  <1>1. ASSUME NEW k \in Kind, NEW cmd \in Cmd, Call(k, cmd) PROVE TypeOK'
    <2>1. CallsTyped'
      <3>1. Retries[k] \in Nat
        BY RetriesAssumption
      <3>2. /\ calls' \in Seq(CallRecord)
            /\ Last \in Nat /\ Last' = Last + 1
            /\ \A c \in 1 .. Last : calls'[c] = calls[c] /\ calls[c].outcome # "pending"
            /\ calls'[Last + 1].attempts = 1 /\ calls'[Last + 1].kind = k
        BY <1>1, NewCall
      <3>3. \A c \in 1 .. Last : calls[c].attempts <= Retries[calls[c].kind] + 1
        BY DEF TypeOK
      <3>4. \A c \in 1 .. Last' : c = Last' \/ c \in 1 .. Last
        BY <3>2
      <3> QED BY <3>1, <3>2, <3>3, <3>4 DEF CallsTyped
    <2>2. toServer' \subseteq Packet
      BY <1>1, NewCall DEF TypeOK, Call, Transmit, Packet
    <2> QED BY <1>1, <2>1, <2>2 DEF TypeOK, CallsTyped, Call, serverVars
  <1>2. ASSUME Retry PROVE TypeOK'
    <2>1. CallsTyped'
      BY <1>2, AttemptsLeft, LastRewritten DEF Retry
    <2>2. toServer' \subseteq Packet
      <3>1. Last \in Nat \ {0} /\ calls[Last].attempts + 1 \in Nat \ {0}
        BY <1>2, LastCall, AttemptsLeft DEF Retry
      <3> QED BY <1>2, <3>1 DEF TypeOK, Retry, Transmit, Packet
    <2> QED BY <1>2, <2>1, <2>2 DEF TypeOK, CallsTyped, Retry, serverVars
  <1>3. ASSUME GiveUp PROVE TypeOK'
    <2>1. CallsTyped'
      BY <1>3, AttemptsLeft, LastRewritten DEF GiveUp
    <2> QED BY <1>3, <2>1 DEF TypeOK, CallsTyped, GiveUp, serverVars, networkVars
  <1>4. ASSUME NEW p \in toClient, Receive(p) PROVE TypeOK'
    <2>1. CallsTyped'
      <3>1. CASE Matches(p)
        <4>1. p \in Packet
          BY DEF TypeOK
        <4> QED BY <1>4, <3>1, <4>1, AttemptsLeft, LastRewritten DEF Receive
      <3>2. CASE ~Matches(p)
        <4>1. calls' = calls
          BY <1>4, <3>2 DEF Receive
        <4> QED BY <4>1, CallsUntouched
      <3> QED BY <3>1, <3>2
    <2> QED BY <1>4, <2>1 DEF TypeOK, CallsTyped, Receive, serverVars
  <1>5. ASSUME Server \/ Lose \/ UNCHANGED vars PROVE TypeOK'
    <2>1. calls' = calls
      BY <1>5 DEF Server, ServerReceive, ServerDrop, ServerAnswer, ServerCount, DropNext,
                  DropAll, Lose, clientVars, vars
    <2>2. CallsTyped'
      BY <2>1, CallsUntouched
    <2>3. ASSUME NEW k \in Kind, NEW p \in toServer, ServerReceive(k, p) PROVE TypeOK'
      BY <2>2, <2>3 DEF TypeOK, CallsTyped, ServerReceive
    <2>4. ASSUME NEW k \in Kind, ServerDrop(k) PROVE TypeOK'
      <3>1. dropNext' \in [Kind -> 0 .. MaxDrop]
        BY <2>4, BoundAssumption DEF TypeOK, ServerDrop, ShouldDrop
      <3> QED BY <2>2, <2>4, <3>1 DEF TypeOK, CallsTyped, ServerDrop, networkVars, NoPacket
    <2>5. ASSUME NEW k \in Kind, ServerAnswer(k) PROVE TypeOK'
      <3>1. server[k].job \in Packet
        BY <2>5 DEF TypeOK, ServerAnswer, NoPacket, Packet
      <3> QED BY <2>2, <2>5, <3>1 DEF TypeOK, CallsTyped, ServerAnswer
    <2>6. ASSUME NEW k \in Kind, ServerCount(k) PROVE TypeOK'
      BY <2>2, <2>6 DEF TypeOK, CallsTyped, ServerCount, networkVars
    <2>7. ASSUME NEW k \in Kind, NEW n \in 0 .. MaxDrop, DropNext(k, n) PROVE TypeOK'
      BY <2>2, <2>7 DEF TypeOK, CallsTyped, DropNext, networkVars
    <2>8. ASSUME NEW k \in Kind, NEW enabled \in BOOLEAN, DropAll(k, enabled) PROVE TypeOK'
      BY <2>2, <2>8 DEF TypeOK, CallsTyped, DropAll, networkVars
    <2>9. ASSUME Lose PROVE TypeOK'
      BY <2>2, <2>9 DEF TypeOK, CallsTyped, Lose, serverVars
    <2>10. ASSUME UNCHANGED vars PROVE TypeOK'
      BY <2>2, <2>10 DEF TypeOK, CallsTyped, vars
    <2> QED BY <1>5, <2>3, <2>4, <2>5, <2>6, <2>7, <2>8, <2>9, <2>10 DEF Server
  <1> QED BY <1>1, <1>2, <1>3, <1>4, <1>5 DEF Next, Client

\* Type correctness: in every reachable state the variables have their types, no call was
\* sent more often than its retries allow, and only the last call can be pending.
THEOREM TypeCorrect == Spec => []TypeOK
  BY TypeInit, TypeStep, PTL DEF Spec

----------------------------------------------------------------------------
(* The inductive invariant: where the datagrams and the answers are.       *)

\* A step adds a call at the end or rewrites the pending one: the calls keep their kind and
\* cmd, attempts are only added, and a call that has returned does not change.
LEMMA CallsGrow ==
  ASSUME TypeOK, [Next]_vars
  PROVE  /\ Last \in Nat /\ Last' \in Nat /\ Last <= Last'
         /\ \A c \in 1 .. Last :
              /\ calls'[c].kind = calls[c].kind
              /\ calls'[c].cmd = calls[c].cmd
              /\ calls[c].attempts \in Nat /\ calls'[c].attempts \in Nat
              /\ calls[c].attempts <= calls'[c].attempts
              /\ calls[c].outcome # "pending" => calls'[c] = calls[c]
  <1> DEFINE Grown == /\ Last \in Nat /\ Last' \in Nat /\ Last <= Last'
                      /\ \A c \in 1 .. Last :
                           /\ calls'[c].kind = calls[c].kind
                           /\ calls'[c].cmd = calls[c].cmd
                           /\ calls[c].attempts \in Nat /\ calls'[c].attempts \in Nat
                           /\ calls[c].attempts <= calls'[c].attempts
                           /\ calls[c].outcome # "pending" => calls'[c] = calls[c]
  <1>1. Last \in Nat /\ \A c \in 1 .. Last : calls[c] \in CallRecord
    BY ElementOfSeq DEF TypeOK, Last
  <1>2. \A c \in 1 .. Last : calls[c].attempts \in Nat
    BY <1>1 DEF CallRecord
  <1>3. ASSUME NEW k \in Kind, NEW cmd \in Cmd, Call(k, cmd) PROVE Grown
    <2>1. Last' = Last + 1 /\ \A c \in 1 .. Last : calls'[c] = calls[c]
      BY <1>3, NewCall
    <2> QED BY <1>1, <1>2, <2>1
  <1>4. ASSUME Waiting, NEW a \in Nat \ {0}, a <= Retries[calls[Last].kind] + 1,
               calls[Last].attempts <= a,
               NEW o \in {"pending", "answered", "timeout"}, NEW b \in Packet \cup {NoPacket},
               calls' = Rewritten(a, o, b)
        PROVE  Grown
    <2>1. /\ Last' = Last
          /\ \A c \in 1 .. Last : calls'[c] = IF c = Last THEN LastAs(a, o, b) ELSE calls[c]
      BY <1>4, LastRewritten
    <2>2. calls[Last].outcome = "pending"
      BY <1>4 DEF Waiting
    <2> QED BY <1>1, <1>2, <1>4, <2>1, <2>2 DEF LastAs
  <1>5. CASE Retry
    BY <1>4, <1>5, AttemptsLeft DEF Retry
  <1>6. CASE GiveUp
    BY <1>4, <1>6, AttemptsLeft DEF GiveUp
  <1>7. ASSUME calls' = calls PROVE Grown
    BY <1>1, <1>2, <1>7, CallsUntouched
  <1>8. ASSUME NEW p \in toClient, Receive(p) PROVE Grown
    <2>1. p \in Packet
      BY DEF TypeOK
    <2>2. CASE Matches(p)
      BY <1>4, <1>8, <2>1, <2>2, AttemptsLeft DEF Receive
    <2>3. CASE ~Matches(p)
      BY <1>7, <1>8, <2>3 DEF Receive
    <2> QED BY <2>2, <2>3
  <1>9. CASE Server \/ Lose \/ UNCHANGED vars
    <2>1. calls' = calls
      BY <1>9 DEF Server, ServerReceive, ServerDrop, ServerAnswer, ServerCount, DropNext,
                  DropAll, Lose, clientVars, vars
    <2> QED BY <1>7, <2>1
  <1> QED BY <1>3, <1>5, <1>6, <1>8, <1>9 DEF Next, Client

\* A datagram that was sent stays sent, and keeps its kind.
LEMMA SentStays ==
  ASSUME TypeOK, [Next]_vars, NEW p \in Packet, Sent(p)
  PROVE  Sent(p)' /\ KindOf(p)' = KindOf(p)
  <1>1. /\ Last \in Nat /\ Last' \in Nat /\ Last <= Last'
        /\ calls'[p.call].kind = calls[p.call].kind
        /\ calls[p.call].attempts \in Nat /\ calls'[p.call].attempts \in Nat
        /\ calls[p.call].attempts <= calls'[p.call].attempts
    BY CallsGrow DEF Sent
  <1>2. p.attempt \in Nat
    BY DEF Packet
  <1> QED BY <1>1, <1>2 DEF Sent, KindOf

\* OnePlace is kept: a new datagram is one that no earlier attempt has sent.
LEMMA OnePlaceStep ==
  ASSUME TypeOK, OnePlace, [Next]_vars
  PROVE  OnePlace'
  <1>1. \A p \in Packet : Sent(p) => Sent(p)' /\ KindOf(p)' = KindOf(p)
    BY SentStays
  <1>2. /\ \A p \in toServer : p \in Packet
        /\ \A p \in handled : p \in Packet
        /\ server \in [Kind -> [at : {"wait"}, job : {NoPacket}]
                              \cup [at : {"got", "answered"}, job : Packet]]
    BY DEF TypeOK
  <1>3. ASSUME NEW q \in Packet, toServer' = toServer \cup {q}, Sent(q)', ~Sent(q),
               UNCHANGED <<handled, server>>
        PROVE  OnePlace'
    BY <1>1, <1>2, <1>3 DEF OnePlace
  <1>4. ASSUME toServer' \subseteq toServer, UNCHANGED <<handled, server>>
        PROVE  OnePlace'
    BY <1>1, <1>2, <1>4 DEF OnePlace
  <1>5. ASSUME NEW k \in Kind, NEW cmd \in Cmd, Call(k, cmd) PROVE OnePlace'
    <2>1. Last \in Nat /\ Last' = Last + 1 /\ calls'[Last + 1].attempts = 1
      BY <1>5, NewCall
    <2>2. PICK q \in Packet : q = [call |-> Last + 1, attempt |-> 1]
      <3>1. [call |-> Last + 1, attempt |-> 1] \in Packet
        BY <2>1 DEF Packet
      <3> QED BY <3>1
    <2>3. Sent(q)' /\ ~Sent(q)
      BY <2>1, <2>2 DEF Sent
    <2>4. toServer' = toServer \cup {q} /\ UNCHANGED <<handled, server>>
      BY <1>5, <2>2 DEF Call, Transmit, serverVars
    <2> QED BY <1>3, <2>3, <2>4
  <1>6. CASE Retry
    <2> DEFINE a == calls[Last].attempts
    <2>1. /\ a \in Nat \ {0} /\ a + 1 \in Nat \ {0}
          /\ a + 1 <= Retries[calls[Last].kind] + 1 /\ Waiting
          /\ calls' = Rewritten(a + 1, "pending", NoPacket)
      BY <1>6, AttemptsLeft DEF Retry
    <2>2. /\ Last \in 1 .. Last /\ Last' = Last
          /\ calls'[Last] = LastAs(a + 1, "pending", NoPacket)
      BY <2>1, LastRewritten
    <2>3. Last \in Nat \ {0}
      BY <2>1, LastCall
    <2>4. PICK q \in Packet : q = [call |-> Last, attempt |-> a + 1]
      BY <2>1, <2>3 DEF Packet
    <2>5. calls'[Last].attempts = a + 1
      BY <2>2 DEF LastAs
    <2>6. Sent(q)'
      BY <2>1, <2>2, <2>4, <2>5 DEF Sent
    <2>7. ~Sent(q)
      BY <2>1, <2>4 DEF Sent
    <2>8. toServer' = toServer \cup {q} /\ UNCHANGED <<handled, server>>
      BY <1>6, <2>4 DEF Retry, Transmit, serverVars
    <2> QED BY <1>3, <2>6, <2>7, <2>8
  <1>7. CASE GiveUp \/ (\E p \in toClient : Receive(p)) \/ Lose \/ UNCHANGED vars
    <2>1. toServer' \subseteq toServer /\ UNCHANGED <<handled, server>>
      BY <1>7 DEF GiveUp, Receive, Lose, networkVars, serverVars, vars
    <2> QED BY <1>4, <2>1
  <1>8. ASSUME NEW k \in Kind, NEW p \in toServer, ServerReceive(k, p) PROVE OnePlace'
    BY <1>1, <1>2, <1>8 DEF OnePlace, ServerReceive
  <1>9. ASSUME NEW k \in Kind, ServerDrop(k) PROVE OnePlace'
    BY <1>1, <1>2, <1>9 DEF OnePlace, ServerDrop, networkVars
  <1>10. ASSUME NEW k \in Kind, ServerAnswer(k) PROVE OnePlace'
    <2>1. /\ server[k].job \in Packet /\ Sent(server[k].job) /\ KindOf(server[k].job) = k
          /\ server[k].job \notin toServer
      BY <1>10 DEF OnePlace, ServerAnswer
    <2>2. \A j \in Kind \ {k} : server[j].at = "got" => server[j].job # server[k].job
      BY <2>1 DEF OnePlace
    <2>3. \A j \in Kind : server'[j].at = "got" => j # k /\ server'[j] = server[j]
      BY <1>2, <1>10 DEF ServerAnswer
    <2>4. handled' = handled \cup {server[k].job} /\ toServer' = toServer
      BY <1>10 DEF ServerAnswer
    <2> QED BY <1>1, <1>2, <2>1, <2>2, <2>3, <2>4 DEF OnePlace
  <1>11. ASSUME NEW k \in Kind, ServerCount(k) PROVE OnePlace'
    BY <1>1, <1>2, <1>11 DEF OnePlace, ServerCount, networkVars
  <1>12. ASSUME NEW k \in Kind, NEW n \in 0 .. MaxDrop, DropNext(k, n) PROVE OnePlace'
    BY <1>4, <1>12 DEF DropNext, networkVars
  <1>13. ASSUME NEW k \in Kind, NEW enabled \in BOOLEAN, DropAll(k, enabled) PROVE OnePlace'
    BY <1>4, <1>13 DEF DropAll, networkVars
  <1> QED BY <1>5, <1>6, <1>7, <1>8, <1>9, <1>10, <1>11, <1>12, <1>13 DEF Next, Client, Server

\* Two sent datagrams of one call and one attempt are the same.
LEMMA PacketEqual ==
  ASSUME NEW p \in Packet, NEW q \in Packet, p.call = q.call, p.attempt = q.attempt
  PROVE  p = q
  BY DEF Packet

\* What a step may do to the answers: the calls answered before keep their answers, and the
\* only new one is the pending call, answered by an answer under way that it takes out.
LEMMA AnswerStep ==
  ASSUME TypeOK, [Next]_vars
  PROVE  /\ \A c \in Answered : c \in Answered' /\ calls'[c] = calls[c]
         /\ handled \subseteq handled'
         /\ \/ Answered' = Answered /\ toClient' \subseteq toClient /\ handled' = handled
            \/ /\ \E p \in toClient : /\ Receive(p) /\ Matches(p)
                                      /\ calls'[Last] = LastAs(calls[Last].attempts, "answered", p)
               /\ Waiting /\ Last \in 1 .. Last
               /\ Last' = Last
               /\ Answered' = Answered \cup {Last}
               /\ Last \notin Answered
               /\ handled' = handled
            \/ /\ calls' = calls
               /\ \E k \in Kind : ServerAnswer(k)
               /\ Answered' = Answered
  <1>1. \A c \in Answered : c \in Answered' /\ calls'[c] = calls[c]
    BY CallsGrow DEF Answered
  <1>2. Last \in Nat
    BY CallsGrow
  <1>3. ASSUME NEW k \in Kind, NEW cmd \in Cmd, Call(k, cmd)
        PROVE  Answered' = Answered /\ toClient' \subseteq toClient /\ handled' = handled
    <2>1. Last' = Last + 1 /\ calls'[Last + 1].outcome = "pending"
      BY <1>3, NewCall
    <2>2. \A c \in 1 .. Last : calls'[c] = calls[c]
      BY <1>3, NewCall
    <2>3. Answered' = Answered
      BY <1>2, <2>1, <2>2 DEF Answered
    <2> QED BY <1>3, <2>3 DEF Call, serverVars
  <1>4. ASSUME Waiting, NEW a \in Nat \ {0}, a <= Retries[calls[Last].kind] + 1,
               NEW o \in {"pending", "timeout"}, calls' = Rewritten(a, o, NoPacket)
        PROVE  Answered' = Answered
    <2>1. /\ Last' = Last /\ Last \in 1 .. Last
          /\ \A c \in 1 .. Last : calls'[c] = IF c = Last THEN LastAs(a, o, NoPacket) ELSE calls[c]
      BY <1>4, LastRewritten
    <2>2. calls[Last].outcome = "pending" /\ calls'[Last].outcome = o
      BY <1>4, <2>1 DEF Waiting, LastAs
    <2>3. \A c \in 1 .. Last : (calls'[c].outcome = "answered") <=> (calls[c].outcome = "answered")
      BY <2>1, <2>2
    <2> QED BY <2>1, <2>3 DEF Answered
  <1>5. CASE Retry
    <2>1. Answered' = Answered
      BY <1>4, <1>5, AttemptsLeft DEF Retry
    <2> QED BY <1>1, <1>5, <2>1 DEF Retry, serverVars
  <1>6. CASE GiveUp
    <2>1. Answered' = Answered
      BY <1>4, <1>6, AttemptsLeft DEF GiveUp
    <2> QED BY <1>1, <1>6, <2>1 DEF GiveUp, serverVars, networkVars
  <1>7. ASSUME NEW p \in toClient, Receive(p), Matches(p)
        PROVE  /\ calls'[Last] = LastAs(calls[Last].attempts, "answered", p)
               /\ Waiting /\ Last \in 1 .. Last
               /\ Last' = Last
               /\ Answered' = Answered \cup {Last}
               /\ Last \notin Answered
               /\ handled' = handled
    <2>1. Waiting /\ p \in Packet /\ handled' = handled
      BY <1>7 DEF Receive, TypeOK, serverVars
    <2> DEFINE r == LastAs(calls[Last].attempts, "answered", p)
    <2>2. /\ Last' = Last /\ Last \in 1 .. Last
          /\ \A c \in 1 .. Last : calls'[c] = IF c = Last THEN r ELSE calls[c]
      BY <1>7, <2>1, AttemptsLeft, LastRewritten DEF Receive
    <2>3. calls[Last].outcome = "pending" /\ r.outcome = "answered"
      BY <2>1 DEF Waiting, LastAs
    <2> HIDE DEF r
    <2>4. Answered' = Answered \cup {Last} /\ Last \notin Answered
      BY <2>2, <2>3 DEF Answered
    <2>5. calls'[Last] = r
      BY <2>2
    <2> QED BY <2>1, <2>2, <2>4, <2>5 DEF r
  <1>8. ASSUME NEW p \in toClient, Receive(p), ~Matches(p)
        PROVE  Answered' = Answered /\ toClient' \subseteq toClient /\ handled' = handled
    BY <1>8 DEF Receive, serverVars, Answered, Last
  <1>9. ASSUME calls' = calls PROVE Answered' = Answered
    BY <1>9 DEF Answered, Last
  <1>10. ASSUME NEW k \in Kind, ServerAnswer(k)
         PROVE  calls' = calls /\ Answered' = Answered /\ handled \subseteq handled'
    BY <1>9, <1>10 DEF ServerAnswer, clientVars
  <1>11. CASE \/ \E k \in Kind, p \in toServer : ServerReceive(k, p)
              \/ \E k \in Kind : ServerDrop(k)
              \/ \E k \in Kind : ServerCount(k)
              \/ \E k \in Kind, n \in 0 .. MaxDrop : DropNext(k, n)
              \/ \E k \in Kind, enabled \in BOOLEAN : DropAll(k, enabled)
              \/ Lose
              \/ UNCHANGED vars
    <2>1. calls' = calls /\ toClient' \subseteq toClient /\ handled' = handled
      BY <1>11 DEF ServerReceive, ServerDrop, ServerCount, DropNext, DropAll, Lose,
                   clientVars, networkVars, serverVars, vars
    <2> QED BY <1>1, <1>9, <2>1
  <1> QED BY <1>1, <1>3, <1>5, <1>6, <1>7, <1>8, <1>10, <1>11 DEF Next, Client, Server

\* The answers under way are unused answers, and the used ones are real.
LEMMA AnswersStep ==
  ASSUME TypeOK, OnePlace, AnswersUnderWay, AnswersAreReal, [Next]_vars
  PROVE  (AnswersUnderWay /\ AnswersAreReal)'
  <1>1. /\ \A c \in Answered : c \in Answered' /\ calls'[c] = calls[c]
        /\ handled \subseteq handled'
    BY AnswerStep
  <1>2. \A c \in Answered : c \in 1 .. Last
    BY DEF Answered
  <1>3. \A p \in handled : p.call \in 1 .. Last
    BY DEF OnePlace, Sent
  <1>4. \A c \in 1 .. Last : calls'[c].kind = calls[c].kind /\ calls'[c].cmd = calls[c].cmd
    BY CallsGrow
  <1>5. Last \in Nat
    BY CallsGrow
  <1>6. CASE Answered' = Answered /\ toClient' \subseteq toClient /\ handled' = handled
    <2>1. AnswersUnderWay'
      BY <1>1, <1>6 DEF AnswersUnderWay
    <2>2. AnswersAreReal'
      BY <1>1, <1>2, <1>3, <1>4, <1>6 DEF AnswersAreReal
    <2> QED BY <2>1, <2>2
  <1>7. ASSUME NEW p \in toClient, Receive(p), Matches(p),
               calls'[Last] = LastAs(calls[Last].attempts, "answered", p),
               Last \in 1 .. Last, Last' = Last, Last \notin Answered,
               Answered' = Answered \cup {Last}, handled' = handled
        PROVE  (AnswersUnderWay /\ AnswersAreReal)'
    <2>1. calls'[Last].by = p
      BY <1>7 DEF LastAs
    <2>2. toClient' = toClient \ {p} /\ KindOf(p) = calls[Last].kind
      BY <1>7 DEF Receive
    <2>3. p \in handled /\ \A c \in Answered : calls[c].by # p
      BY DEF AnswersUnderWay
    <2>4. AnswersUnderWay'
      BY <1>1, <1>7, <2>1, <2>2 DEF AnswersUnderWay
    <2>5. ASSUME NEW c \in Answered
          PROVE  /\ calls'[c].by \in handled'
                 /\ calls'[c].by.call <= c
                 /\ calls'[calls'[c].by.call].kind = calls'[c].kind
                 /\ calls'[calls'[c].by.call].cmd = calls'[c].cmd
                 /\ \A d \in Answered' \ {c} : calls'[d].by # calls'[c].by
      BY <1>1, <1>2, <1>3, <1>4, <1>7, <2>1, <2>3 DEF AnswersAreReal
    <2>6. /\ p.call \in 1 .. Last
          /\ calls'[p.call].kind = calls'[Last].kind
          /\ calls'[p.call].cmd = calls'[Last].cmd
      BY <1>3, <1>4, <1>7, <2>2, <2>3 DEF KindOf, Matches
    <2>7. \A d \in Answered' \ {Last} : calls'[d].by # p
      BY <1>1, <1>7, <2>3
    <2>8. AnswersAreReal'
      BY <1>5, <1>7, <2>1, <2>3, <2>5, <2>6, <2>7 DEF AnswersAreReal
    <2> QED BY <2>4, <2>8
  <1>8. ASSUME NEW k \in Kind, ServerAnswer(k), calls' = calls, Answered' = Answered
        PROVE  (AnswersUnderWay /\ AnswersAreReal)'
    <2>1. /\ toClient' = toClient \cup {server[k].job}
          /\ handled' = handled \cup {server[k].job}
          /\ server[k].job \notin handled
      BY <1>8 DEF ServerAnswer, OnePlace
    <2>2. \A c \in Answered : calls[c].by \in handled
      BY DEF AnswersAreReal
    <2>3. AnswersUnderWay'
      BY <1>8, <2>1, <2>2 DEF AnswersUnderWay
    <2>4. AnswersAreReal'
      BY <1>8, <2>1 DEF AnswersAreReal
    <2> QED BY <2>3, <2>4
  <1> QED BY <1>6, <1>7, <1>8, AnswerStep

\* While every earlier call was answered at once, no answer is left over for a later call.
LEMMA StaleStep ==
  ASSUME TypeOK, OnePlace, AnswersUnderWay, AnswersAreReal, StaleAnswersNeedRetries,
         [Next]_vars
  PROVE  StaleAnswersNeedRetries'
  <1> DEFINE AtOnce(cs, c) == \A b \in 1 .. c - 1 : cs[b].outcome = "answered" /\ cs[b].attempts = 1
  <1>1. Last \in Nat
    BY CallsGrow
  <1>2. \A c \in 1 .. Last : calls[c].outcome # "pending" => calls'[c] = calls[c]
    BY CallsGrow
  <1>3. \A c \in 1 .. Last : \A b \in 1 .. c - 1 : b \in 1 .. Last /\ calls[b].outcome # "pending"
    BY <1>1 DEF TypeOK
  <1>4. \A c \in 1 .. Last : AtOnce(calls', c) <=> AtOnce(calls, c)
    BY <1>2, <1>3
  <1>5. ASSUME NEW c \in Answered, AtOnce(calls', c) PROVE calls'[c].by.call = c
    <2>1. c \in 1 .. Last /\ calls'[c] = calls[c]
      BY AnswerStep DEF Answered
    <2> QED BY <1>4, <1>5, <2>1 DEF StaleAnswersNeedRetries
  <1>6. ASSUME NEW p \in toClient, p.call \in 1 .. Last - 1, Last \in 1 .. Last,
               AtOnce(calls, Last)
        PROVE  FALSE
    <2> DEFINE b == p.call
               q == calls[b].by
    <2>1. /\ p \in handled /\ p \in Packet /\ p.attempt <= calls[b].attempts
      BY DEF AnswersUnderWay, OnePlace, Sent, TypeOK
    <2>2. b \in Answered /\ calls[b].attempts = 1
      BY <1>1, <1>6 DEF Answered
    <2>3. AtOnce(calls, b)
      BY <1>1, <1>6
    <2>4. q.call = b
      BY <2>2, <2>3 DEF StaleAnswersNeedRetries
    <2>5. q \in handled /\ q \notin toClient
      BY <2>2 DEF AnswersAreReal, AnswersUnderWay
    <2>6. q \in Packet /\ q.attempt <= 1
      BY <2>2, <2>4, <2>5 DEF OnePlace, Sent, TypeOK
    <2>7. p.attempt = 1 /\ q.attempt = 1
      BY <2>1, <2>2, <2>6 DEF Packet
    <2> QED BY <2>1, <2>4, <2>5, <2>6, <2>7, PacketEqual
  <1>7. ASSUME NEW p \in toClient, Last' = Last, Last \in 1 .. Last,
               calls'[Last] = LastAs(calls[Last].attempts, "answered", p),
               AtOnce(calls', Last)
        PROVE  calls'[Last].by.call = Last
    <2>1. calls'[Last].by = p
      BY <1>7 DEF LastAs
    <2>2. p.call \in 1 .. Last
      BY DEF AnswersUnderWay, OnePlace, Sent
    <2>3. AtOnce(calls, Last)
      BY <1>4, <1>7
    <2>4. p.call \notin 1 .. Last - 1
      BY <1>6, <1>7, <2>3
    <2> QED BY <1>1, <2>1, <2>2, <2>4
  <1>8. ASSUME NEW c \in Answered', AtOnce(calls', c) PROVE calls'[c].by.call = c
    BY <1>5, <1>7, <1>8, AnswerStep
  <1> QED BY <1>8 DEF StaleAnswersNeedRetries

\* Answering adds one answer of one kind; counting it takes the debt back.
LEMMA CountStep ==
  ASSUME TypeOK, OnePlace, AnswersCounted, [Next]_vars
  PROVE  AnswersCounted'
  <1>1. \A p \in handled : calls'[p.call].kind = calls[p.call].kind
    BY CallsGrow DEF OnePlace, Sent
  <1>2. ASSUME handled' = handled PROVE \A k \in Kind : Given(k)' = Given(k)
    BY <1>1, <1>2 DEF Given, KindOf
  <1>3. /\ IsFiniteSet(handled) /\ sent \in [Kind -> Nat]
        /\ \A k \in Kind : /\ Given(k) \subseteq handled
                            /\ Cardinality(Given(k))
                                  <= sent[k] + (IF server[k].at = "answered" THEN 1 ELSE 0)
    BY DEF AnswersCounted, TypeOK, Given
  <1>4. \A k \in Kind : IsFiniteSet(Given(k)) /\ Cardinality(Given(k)) \in Nat
    BY <1>3, FS_Subset, FS_CardinalityType
  <1>5. server \in [Kind -> [at : {"wait"}, job : {NoPacket}]
                            \cup [at : {"got", "answered"}, job : Packet]]
    BY DEF TypeOK
  <1>6. ASSUME handled' = handled,
               \A k \in Kind : sent[k] + (IF server[k].at = "answered" THEN 1 ELSE 0)
                              <= sent'[k] + (IF server'[k].at = "answered" THEN 1 ELSE 0),
               sent' \in [Kind -> Nat]
        PROVE  AnswersCounted'
    BY <1>2, <1>3, <1>4, <1>6 DEF AnswersCounted
  <1>7. ASSUME NEW k \in Kind, ServerAnswer(k) PROVE AnswersCounted'
    <2> DEFINE q == server[k].job
    <2>1. /\ handled' = handled \cup {q} /\ q \notin handled /\ calls' = calls
          /\ calls[q.call].kind = k /\ sent' = sent
          /\ server' = [server EXCEPT ![k] = [at |-> "answered", job |-> server[k].job]]
          /\ server[k].at = "got"
      BY <1>7 DEF ServerAnswer, OnePlace, clientVars, KindOf
    <2>2. IsFiniteSet(handled')
      BY <1>3, <2>1, FS_AddElement
    <2>3. ASSUME NEW j \in Kind, j # k
          PROVE  Given(j)' = Given(j) /\ server'[j] = server[j]
      BY <1>5, <2>1, <2>3 DEF Given, KindOf
    <2>4. Given(k)' = Given(k) \cup {q} /\ q \notin Given(k)
      BY <2>1 DEF Given, KindOf
    <2>5. Cardinality(Given(k)') = Cardinality(Given(k)) + 1
      BY <1>4, <2>4, FS_AddElement
    <2>6. server'[k].at = "answered"
      BY <1>5, <2>1
    <2>7. Cardinality(Given(k)) <= sent[k] + 0
      BY <1>3, <2>1
    <2> HIDE DEF q
    <2>8. ASSUME NEW j \in Kind
          PROVE  Cardinality(Given(j)') <= sent'[j] + (IF server'[j].at = "answered" THEN 1 ELSE 0)
      <3>1. CASE j = k
        BY <1>3, <1>4, <2>1, <2>5, <2>6, <2>7, <3>1
      <3>2. CASE j # k
        BY <1>3, <2>1, <2>3, <3>2
      <3> QED BY <3>1, <3>2
    <2> QED BY <2>2, <2>8 DEF AnswersCounted
  <1>8. ASSUME NEW k \in Kind, ServerCount(k) PROVE AnswersCounted'
    <2>1. /\ handled' = handled /\ sent' = [sent EXCEPT ![k] = @ + 1]
          /\ server' = [server EXCEPT ![k] = [at |-> "wait", job |-> NoPacket]]
      BY <1>8 DEF ServerCount
    <2>2. sent' \in [Kind -> Nat] /\ sent'[k] = sent[k] + 1
      BY <1>3, <2>1
    <2>3. \A j \in Kind \ {k} : sent'[j] = sent[j] /\ server'[j] = server[j]
      BY <1>3, <1>5, <2>1
    <2> QED BY <1>3, <1>6, <2>1, <2>2, <2>3
  <1>9. CASE UNCHANGED <<handled, sent, server>>
    BY <1>3, <1>6, <1>9
  <1>10. ASSUME NEW k \in Kind, NEW p \in toServer, ServerReceive(k, p) PROVE AnswersCounted'
    BY <1>3, <1>5, <1>6, <1>10 DEF ServerReceive
  <1>11. ASSUME NEW k \in Kind, ServerDrop(k) PROVE AnswersCounted'
    BY <1>3, <1>5, <1>6, <1>11 DEF ServerDrop
  <1>12. Client \/ Lose \/ UNCHANGED vars
           \/ (\E k \in Kind, n \in 0 .. MaxDrop : DropNext(k, n))
           \/ (\E k \in Kind, enabled \in BOOLEAN : DropAll(k, enabled))
         => UNCHANGED <<handled, sent, server>>
    BY DEF Client, Call, Retry, GiveUp, Receive, Lose, DropNext, DropAll, serverVars, vars
  <1> QED BY <1>7, <1>8, <1>9, <1>10, <1>11, <1>12 DEF Next, Server

\* The inductive invariant holds throughout.
THEOREM Invariant == Spec => []IInv
  <1>1. Init => IInv
    <2> SUFFICES ASSUME Init PROVE IInv
      OBVIOUS
    <2>1. Last = 0
      BY EmptySeq DEF Init, Last
    <2>2. Answered = {}
      BY <2>1 DEF Answered
    <2>3. AnswersCounted
      <3>1. handled = {} /\ \A k \in Kind : Given(k) = {} /\ sent[k] = 0
        BY DEF Init, Given
      <3> QED BY <3>1, FS_EmptySet DEF AnswersCounted
    <2> QED BY <2>2, <2>3, TypeInit DEF Init, IInv, OnePlace, AnswersUnderWay, AnswersAreReal,
              StaleAnswersNeedRetries
  <1>2. IInv /\ [Next]_vars => IInv'
    BY TypeStep, OnePlaceStep, AnswersStep, StaleStep, CountStep DEF IInv
  <1> QED BY <1>1, <1>2, PTL DEF Spec

\* An answer that a call returns was given by the server to a datagram of the same kind and
\* cmd, not later than the call, and is returned to one call only (request and send_event
\* with is_response_for and is_ack_for), whatever is lost, dropped or late.
THEOREM EveryAnswerIsRealAndUsedOnce == Spec => []AnswersAreReal
  BY Invariant, PTL DEF IInv

\* A call gets the answer to an earlier one only if an earlier call was repeated or given up.
THEOREM AnswersAreFreshWithoutRetries == Spec => []StaleAnswersNeedRetries
  BY Invariant, PTL DEF IInv

\* No two calls share an answer, so the answered calls of a kind are no more than the
\* answers given to it.
LEMMA AnsweredCallsWithinGiven ==
  ASSUME IInv, NEW k \in Kind
  PROVE  Cardinality({c \in Answered : calls[c].kind = k}) <= Cardinality(Given(k))
  <1> DEFINE S == {c \in Answered : calls[c].kind = k}
             f == [c \in S |-> calls[c].by]
  <1>1. \A c \in S : calls[c].by \in Given(k)
    BY DEF IInv, AnswersAreReal, Given, KindOf
  <1>2. \A c, d \in S : f[c] = f[d] => c = d
    BY DEF IInv, AnswersAreReal
  <1>3. f \in Injection(S, Given(k))
    BY <1>1, <1>2 DEF Injection, IsInjective
  <1>4. IsFiniteSet(Given(k))
    BY FS_Subset DEF IInv, AnswersCounted, Given
  <1> HIDE DEF S, f
  <1>5. Cardinality(S) <= Cardinality(Given(k))
    BY <1>3, <1>4, FS_Injection
  <1> QED BY <1>5 DEF S

\* responses_sent and acks_sent never fall more than one behind the answers that callers
\* have: a caller may read a counter that lacks its own answer, and no other.
THEOREM CounterLags == Spec => []CounterLagsByOne
  <1>1. IInv => CounterLagsByOne
    <2> SUFFICES ASSUME IInv, NEW k \in Kind
                 PROVE  Cardinality({c \in Answered : calls[c].kind = k})
                          <= sent[k] + (IF server[k].at = "answered" THEN 1 ELSE 0)
      BY DEF CounterLagsByOne
    <2> DEFINE S == {c \in Answered : calls[c].kind = k}
    <2>1. /\ Cardinality(S) <= Cardinality(Given(k))
          /\ Cardinality(Given(k)) <= sent[k] + (IF server[k].at = "answered" THEN 1 ELSE 0)
      BY AnsweredCallsWithinGiven DEF IInv, AnswersCounted
    <2>2. Cardinality(Given(k)) \in Nat /\ sent[k] \in Nat
      BY FS_Subset, FS_CardinalityType DEF IInv, AnswersCounted, Given, TypeOK
    <2>3. IsFiniteSet(1 .. Last) /\ S \in SUBSET (1 .. Last)
      BY LenProperties, FS_Interval DEF Answered, IInv, TypeOK, Last
    <2>4. Cardinality(S) \in Nat
      BY <2>3, FS_Subset, FS_CardinalityType
    <2> HIDE DEF S
    <2>5. Cardinality(S) <= sent[k] + (IF server[k].at = "answered" THEN 1 ELSE 0)
      BY <2>1, <2>2, <2>4
    <2> QED BY <2>5 DEF S
  <1> QED BY <1>1, Invariant, PTL
=============================================================================
