---------------------------- MODULE UdpProtocol ----------------------------
(***************************************************************************)
(* The UDP request/response and message/ACK protocol between the remote    *)
(* controller (UDPProtocolClient) and the vehicle (MockUGVServer).         *)
(*                                                                         *)
(* A call blocks its caller: it sends a datagram, waits for a matching     *)
(* answer until a deadline, and sends again, up to a number of retries.    *)
(* The envelope has no field that ties an answer to a call, so an answer   *)
(* matches by its cmd alone.  The network loses and reorders datagrams; an *)
(* answer that is late waits in the socket's buffer and is read by the     *)
(* next wait on that socket.  Requests and events use sockets of their own *)
(* on both sides and a server thread each.                                 *)
(*                                                                         *)
(* A datagram is named by the call it was sent for and the attempt that    *)
(* sent it, and an answer by the datagram that it answers: the program     *)
(* reads neither, only the cmd.                                            *)
(***************************************************************************)
EXTENDS Integers, FiniteSets, Sequences

CONSTANTS
  Cmd,        \* the cmd strings in use
  Retries,    \* periodic_max_retries and event_max_retries
  MaxCalls,   \* bound on the calls of a behaviour
  MaxDrop     \* bound on the argument of drop_next_requests and drop_next_events

\* Request/Response on the periodic sockets, Message/ACK on the event sockets.
Kind == {"request", "event"}

ASSUME RetriesAssumption == Retries \in [Kind -> Nat]
ASSUME BoundAssumption == MaxCalls \in Nat /\ MaxDrop \in Nat

VARIABLES
  calls,      \* the calls so far: their kind, cmd, attempts, outcome, and the answer used
  toServer,   \* datagrams under way to the server or waiting in its socket
  toClient,   \* answers under way to the client or waiting in its socket
  server,     \* per kind: where its thread is, and the datagram it works on
  handled,    \* datagrams the server has answered
  received,   \* requests_received, events_received
  dropped,    \* requests_dropped, events_dropped
  sent,       \* responses_sent, acks_sent
  dropNext,   \* drop_next_requests, drop_next_events
  dropAll     \* drop_all_requests, drop_all_events

clientVars == <<calls>>
networkVars == <<toServer, toClient>>
serverVars == <<server, handled, received, dropped, sent, dropNext, dropAll>>
vars == <<calls, toServer, toClient, server, handled, received, dropped, sent, dropNext, dropAll>>

NoPacket == [call |-> 0, attempt |-> 0]
Packet == [call : Nat \ {0}, attempt : Nat \ {0}]

----------------------------------------------------------------------------
(* The client: request and send_event.                                     *)

Last == Len(calls)
Waiting == Last > 0 /\ calls[Last].outcome = "pending"
KindOf(p) == calls[p.call].kind

\* The calls, with the last one rewritten.
Rewritten(attempts, outcome, by) ==
  [calls EXCEPT ![Last] = [kind |-> calls[Last].kind, cmd |-> calls[Last].cmd,
                           attempts |-> attempts, outcome |-> outcome, by |-> by]]

Transmit(c, a) == toServer' = toServer \cup {[call |-> c, attempt |-> a]}

\* request or send_event is called, and sends for the first time.
Call(k, cmd) ==
  /\ Last < MaxCalls
  /\ ~Waiting
  /\ calls' = Append(calls, [kind |-> k, cmd |-> cmd, attempts |-> 1,
                             outcome |-> "pending", by |-> NoPacket])
  /\ Transmit(Last + 1, 1)
  /\ UNCHANGED <<toClient, serverVars>>

\* Variants of an operator, named Bad..., hold the mistakes that the properties must tell
\* from the code; no action uses them.
\* The attempt is not counted.
BadRetry ==
  /\ Waiting
  /\ calls[Last].attempts < Retries[calls[Last].kind] + 1
  /\ Transmit(Last, calls[Last].attempts)
  /\ UNCHANGED <<calls, toClient, serverVars>>

\* One attempt too many.
BadRetryLimit ==
  /\ Waiting
  /\ calls[Last].attempts < Retries[calls[Last].kind] + 2
  /\ calls' = Rewritten(calls[Last].attempts + 1, "pending", NoPacket)
  /\ Transmit(Last, calls[Last].attempts + 1)
  /\ UNCHANGED <<toClient, serverVars>>

\* The deadline passes without a matching answer, and the next attempt sends again.
Retry ==
  /\ Waiting
  /\ calls[Last].attempts < Retries[calls[Last].kind] + 1
  /\ calls' = Rewritten(calls[Last].attempts + 1, "pending", NoPacket)
  /\ Transmit(Last, calls[Last].attempts + 1)
  /\ UNCHANGED <<toClient, serverVars>>

\* The deadline of the last attempt passes: ProtocolTimeoutError.
GiveUp ==
  /\ Waiting
  /\ calls[Last].attempts = Retries[calls[Last].kind] + 1
  /\ calls' = Rewritten(calls[Last].attempts, "timeout", NoPacket)
  /\ UNCHANGED <<networkVars, serverVars>>

\* Any answer will do.
BadMatches(p) == TRUE

\* is_response_for and is_ack_for: the cmd decides.
Matches(p) == calls[p.call].cmd = calls[Last].cmd

\* The answer stays in the buffer.
BadReceive(p) ==
  /\ Waiting
  /\ KindOf(p) = calls[Last].kind
  /\ calls' = IF Matches(p) THEN Rewritten(calls[Last].attempts, "answered", p) ELSE calls
  /\ UNCHANGED <<networkVars, serverVars>>

\* _recv_until reads an answer from the call's socket: a matching one ends the call, any
\* other is thrown away.
Receive(p) ==
  /\ Waiting
  /\ KindOf(p) = calls[Last].kind
  /\ toClient' = toClient \ {p}
  /\ calls' = IF Matches(p) THEN Rewritten(calls[Last].attempts, "answered", p) ELSE calls
  /\ UNCHANGED <<toServer, serverVars>>

----------------------------------------------------------------------------
(* The server's two loops, and the hooks that make it drop datagrams.      *)

\* A datagram is read and counted.
ServerReceive(k, p) ==
  /\ server[k].at = "wait"
  /\ KindOf(p) = k
  /\ toServer' = toServer \ {p}
  /\ server' = [server EXCEPT ![k] = [at |-> "got", job |-> p]]
  /\ received' = [received EXCEPT ![k] = @ + 1]
  /\ UNCHANGED <<clientVars, toClient, handled, dropped, sent, dropNext, dropAll>>

\* _should_drop_request, _should_drop_event
ShouldDrop(k) == dropAll[k] \/ dropNext[k] > 0

\* The datagram is dropped and counted; a limited number of drops is used up.
ServerDrop(k) ==
  /\ server[k].at = "got"
  /\ ShouldDrop(k)
  /\ dropNext' = [dropNext EXCEPT ![k] = IF dropAll[k] THEN @ ELSE @ - 1]
  /\ dropped' = [dropped EXCEPT ![k] = @ + 1]
  /\ server' = [server EXCEPT ![k] = [at |-> "wait", job |-> NoPacket]]
  /\ UNCHANGED <<clientVars, networkVars, handled, received, sent, dropAll>>

\* The answer is not counted.
BadServerAnswer(k) ==
  /\ server[k].at = "got"
  /\ handled' = handled \cup {server[k].job}
  /\ toClient' = toClient \cup {server[k].job}
  /\ server' = [server EXCEPT ![k] = [at |-> "wait", job |-> NoPacket]]
  /\ UNCHANGED <<clientVars, toServer, received, dropped, sent, dropNext, dropAll>>

\* The datagram is answered: the answer is on its way before it is counted.
ServerAnswer(k) ==
  /\ server[k].at = "got"
  /\ ~ShouldDrop(k)
  /\ handled' = handled \cup {server[k].job}
  /\ toClient' = toClient \cup {server[k].job}
  /\ server' = [server EXCEPT ![k] = [at |-> "answered", job |-> server[k].job]]
  /\ UNCHANGED <<clientVars, toServer, received, dropped, sent, dropNext, dropAll>>

ServerCount(k) ==
  /\ server[k].at = "answered"
  /\ sent' = [sent EXCEPT ![k] = @ + 1]
  /\ server' = [server EXCEPT ![k] = [at |-> "wait", job |-> NoPacket]]
  /\ UNCHANGED <<clientVars, networkVars, handled, received, dropped, dropNext, dropAll>>

DropNext(k, n) ==
  /\ dropNext' = [dropNext EXCEPT ![k] = n]
  /\ UNCHANGED <<clientVars, networkVars, server, handled, received, dropped, sent, dropAll>>

DropAll(k, enabled) ==
  /\ dropAll' = [dropAll EXCEPT ![k] = enabled]
  /\ UNCHANGED <<clientVars, networkVars, server, handled, received, dropped, sent, dropNext>>

----------------------------------------------------------------------------
(* The network and the specification.                                      *)

\* A datagram or an answer is lost, or is malformed on arrival and ignored.
Lose ==
  /\ \/ \E p \in toServer : toServer' = toServer \ {p} /\ UNCHANGED toClient
     \/ \E p \in toClient : toClient' = toClient \ {p} /\ UNCHANGED toServer
  /\ UNCHANGED <<clientVars, serverVars>>

Init ==
  /\ calls = <<>>
  /\ toServer = {}
  /\ toClient = {}
  /\ server = [k \in Kind |-> [at |-> "wait", job |-> NoPacket]]
  /\ handled = {}
  /\ received = [k \in Kind |-> 0]
  /\ dropped = [k \in Kind |-> 0]
  /\ sent = [k \in Kind |-> 0]
  /\ dropNext = [k \in Kind |-> 0]
  /\ dropAll = [k \in Kind |-> FALSE]

Client ==
  \/ \E k \in Kind, cmd \in Cmd : Call(k, cmd)
  \/ Retry
  \/ GiveUp
  \/ \E p \in toClient : Receive(p)

Server ==
  \/ \E k \in Kind, p \in toServer : ServerReceive(k, p)
  \/ \E k \in Kind : ServerDrop(k)
  \/ \E k \in Kind : ServerAnswer(k)
  \/ \E k \in Kind : ServerCount(k)
  \/ \E k \in Kind, n \in 0 .. MaxDrop : DropNext(k, n)
  \/ \E k \in Kind, enabled \in BOOLEAN : DropAll(k, enabled)

Next == Client \/ Server \/ Lose

Spec == Init /\ [][Next]_vars

\* Deadlines pass: time.monotonic does not stop.
FairSpec == Spec /\ WF_vars(Retry \/ GiveUp)

----------------------------------------------------------------------------
(* Properties.                                                             *)

CallRecord == [kind : Kind, cmd : Cmd, attempts : Nat \ {0},
               outcome : {"pending", "answered", "timeout"}, by : Packet \cup {NoPacket}]
Answered == {c \in 1 .. Last : calls[c].outcome = "answered"}

\* Every variable has its type; no call is sent more often than its retries allow, and only
\* the last call can be pending.
TypeOK ==
  /\ calls \in Seq(CallRecord)
  /\ \A c \in 1 .. Last : /\ calls[c].attempts <= Retries[calls[c].kind] + 1
                          /\ calls[c].outcome = "pending" => c = Last
  /\ toServer \subseteq Packet
  /\ toClient \subseteq Packet
  /\ server \in [Kind -> [at : {"wait"}, job : {NoPacket}]
                          \cup [at : {"got", "answered"}, job : Packet]]
  /\ handled \subseteq Packet
  /\ received \in [Kind -> Nat]
  /\ dropped \in [Kind -> Nat]
  /\ sent \in [Kind -> Nat]
  /\ dropNext \in [Kind -> 0 .. MaxDrop]
  /\ dropAll \in [Kind -> BOOLEAN]

\* An answered call used an answer that the server really gave, to a datagram of this call or
\* of an earlier one with the same kind and cmd, and no other call used that answer: the
\* answers that were missed can satisfy later calls, but each only one of them.
AnswersAreReal ==
  \A c \in Answered :
    /\ calls[c].by \in handled
    /\ calls[c].by.call <= c
    /\ calls[calls[c].by.call].kind = calls[c].kind
    /\ calls[calls[c].by.call].cmd = calls[c].cmd
    /\ \A d \in Answered \ {c} : calls[d].by # calls[c].by

\* A stale answer needs a repeated datagram: while every earlier call was answered at its
\* first attempt, a call is answered by its own answer.
StaleAnswersNeedRetries ==
  \A c \in Answered :
    (\A b \in 1 .. c - 1 : calls[b].outcome = "answered" /\ calls[b].attempts = 1)
      => calls[c].by.call = c

\* The server's counter of answers lags the answers that calls have used by at most the one
\* that its thread is about to count.
CounterLagsByOne ==
  \A k \in Kind :
    Cardinality({c \in Answered : calls[c].kind = k})
      <= sent[k] + (IF server[k].at = "answered" THEN 1 ELSE 0)

\* Every call returns, whatever the network and the server do (the deadlines of _recv_until
\* and the number of attempts are finite).
CallsReturn == Waiting ~> ~Waiting

\* A call that returns has been served: what the caller of request and send_event relies on.
AnsweredCallIsServed ==
  \A c \in Answered : \E p \in handled : p.call = c

\* When the caller has its answer, the server has counted it: what the round-trip tests
\* assert about responses_sent and acks_sent.
AnswerIsCounted ==
  ~Waiting => \A k \in Kind : Cardinality({c \in Answered : calls[c].kind = k}) <= sent[k]
=============================================================================
