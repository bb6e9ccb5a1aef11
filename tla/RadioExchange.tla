---------------------------- MODULE RadioExchange ----------------------------
(***************************************************************************)
(* IEnOceanInterface::sendAndReceivePacket, called by any thread, against  *)
(* checkForEnOceanRequest, called by the listen thread.                    *)
(*                                                                         *)
(* The call registers a request for a device, holds that request's mutex   *)
(* while it sends all chunks of its packet (one serial exchange each, see  *)
(* SerialChannel), waits for an answer with the mutex released, and sends  *)
(* everything again while retries are left and there is no answer.  The    *)
(* one listen thread delivers both the acknowledgements that the sending   *)
(* needs and the telegrams, and needs the request mutex to announce a      *)
(* telegram.                                                               *)
(*                                                                         *)
(* A thread has at most one EnOceanRequest object, which is named by the   *)
(* thread; an object its thread is done with while the listen thread still *)
(* refers to it is Orphan.                                                 *)
(*                                                                         *)
(* Bound: MaxLine frames on the line, beyond which they are lost.          *)
(***************************************************************************)
EXTENDS SerialChannel

CONSTANTS Device,      \* sender addresses
          Function,    \* remote management functions a telegram can carry
          AnyFunction, \* the filter that looks at the sender address only
          Orphan,      \* a request object whose call has returned
          Torn,        \* a response read or left half written
          Chunks,      \* [Caller -> chunks of the packet it sends]
          Retries,     \* [Caller -> retries it asks for]
          MaxLine

ASSUME RadioAssumption ==
  /\ Telegram = [device : Device, function : Function]
  /\ AnyFunction \notin Function
  /\ None \notin Telegram \cup {Orphan}
  /\ Orphan \notin Caller
  /\ Torn \notin Telegram \cup {None}
  /\ Chunks \in [Caller -> Nat \ {0}]
  /\ Retries \in [Caller -> Nat]
  /\ MaxLine \in Nat \ {0}

VARIABLES
  pc,          \* [Caller -> where the thread is in sendAndReceivePacket]
  toSend,      \* [Caller -> chunks not yet sent in this attempt]
  left,        \* [Caller -> retries left]
  result,      \* [Caller -> what the call returns]
  registered,  \* the threads whose request is in _enoceanRequests
  wants,       \* [Caller -> device and filter of its request]
  ready,       \* [Caller -> mutexReady of its request]
  response,    \* [Caller -> response of its request]
  lpc,         \* where the listen thread is in checkForEnOceanRequest
  held,        \* the request it found
  telegram     \* the telegram it delivers

callVars == <<pc, toSend, left, result>>
requestVars == <<registered, wants, ready, response>>
listenVars == <<lpc, held, telegram>>
vars == <<channelVars, callVars, requestVars, listenVars>>

(* Between its registration and its removal from _enoceanRequests.         *)
Active == {"lock", "send", "sending", "failed", "waiting", "check", "unregister"}

(* The request mutex is held everywhere but in the wait.                   *)
HoldsRequest == {"send", "sending", "failed", "check", "unregister", "read", "done"}

Filter == [device : Device, function : Function \cup {AnyFunction}]

TypeOK ==
  /\ ChannelTypeOK
  /\ pc \in [Caller -> {"idle"} \cup Active \cup HoldsRequest]
  /\ toSend \in [Caller -> Nat]
  /\ left \in [Caller -> Nat]
  /\ result \in [Caller -> Telegram \cup {None, Torn}]
  /\ registered \subseteq Caller
  /\ wants \in [Caller -> Filter \cup {None}]
  /\ ready \in [Caller -> BOOLEAN]
  /\ response \in [Caller -> Telegram \cup {None, Torn}]
  /\ lpc \in {"idle", "write", "writing", "lock"}
  /\ held \in Caller \cup {None, Orphan}
  /\ telegram \in Telegram \cup {None}

Init ==
  /\ ChannelInit
  /\ pc = [c \in Caller |-> "idle"]
  /\ toSend = [c \in Caller |-> 0]
  /\ left = [c \in Caller |-> 0]
  /\ result = [c \in Caller |-> None]
  /\ registered = {}
  /\ wants = [c \in Caller |-> None]
  /\ ready = [c \in Caller |-> FALSE]
  /\ response = [c \in Caller |-> None]
  /\ lpc = "idle"
  /\ held = None
  /\ telegram = None

Goto(c, from, to) ==
  /\ pc[c] = from
  /\ pc' = [pc EXCEPT ![c] = to]

Matches(c, t) ==
  /\ wants[c].device = t.device
  /\ wants[c].function \in {AnyFunction, t.function}

-----------------------------------------------------------------------------
(* sendAndReceivePacket, step by step.                                     *)

Call(c, w) ==
  /\ Goto(c, "idle", "lock")
  /\ left' = [left EXCEPT ![c] = Retries[c]]
  /\ registered' = registered \cup {c}
  /\ wants' = [wants EXCEPT ![c] = w]
  /\ UNCHANGED <<channelVars, toSend, result, ready, response, listenVars>>

StartAttempt(c, from) ==
  /\ Goto(c, from, "send")
  /\ toSend' = [toSend EXCEPT ![c] = Chunks[c]]

LockRequest(c) ==
  /\ StartAttempt(c, "lock")
  /\ UNCHANGED <<channelVars, left, result, requestVars, listenVars>>

BeginChunk(c) ==
  /\ Begin(c)
  /\ Goto(c, "send", "sending")
  /\ UNCHANGED <<toSend, left, result, requestVars, listenVars>>

TransmitChunk(c) ==
  /\ Transmit(c)
  /\ Len(line') <= MaxLine
  /\ UNCHANGED <<callVars, requestVars, listenVars>>

(* An acknowledged chunk can still carry an error status.                  *)
ChunkAccepted(c) ==
  /\ answered
  /\ End(c)
  /\ toSend' = [toSend EXCEPT ![c] = @ - 1]
  /\ Goto(c, "sending", IF toSend[c] = 1 THEN "waiting" ELSE "send")
  /\ UNCHANGED <<left, result, requestVars, listenVars>>

(* Faulty variant: no time limit on the acknowledgement.                   *)
ChunkFailedAnswered(c) ==
  /\ answered
  /\ End(c)
  /\ Goto(c, "sending", "failed")
  /\ UNCHANGED <<toSend, left, result, requestVars, listenVars>>

ChunkFailed(c) ==
  /\ End(c)
  /\ Goto(c, "sending", "failed")
  /\ UNCHANGED <<toSend, left, result, requestVars, listenVars>>

(* The interface refuses: it is not initialised, or it has been stopped.   *)
SendRefused(c) ==
  /\ Goto(c, "send", "failed")
  /\ UNCHANGED <<channelVars, toSend, left, result, requestVars, listenVars>>

(* Faulty variant: the error path returns without removing the request.    *)
GiveUpRegistered(c) ==
  /\ Goto(c, "failed", "done")
  /\ UNCHANGED <<channelVars, toSend, left, result, requestVars, listenVars>>

GiveUp(c) ==
  /\ Goto(c, "failed", "done")
  /\ registered' = registered \ {c}
  /\ UNCHANGED <<channelVars, toSend, left, result, wants, ready, response, listenVars>>

EndWait(c) ==
  /\ Goto(c, "waiting", "check")
  /\ UNCHANGED <<channelVars, toSend, left, result, requestVars, listenVars>>

Wake(c) == pc[c] = "waiting" /\ ready[c] /\ EndWait(c)

Expire(c) == pc[c] = "waiting" /\ ~ready[c] /\ EndWait(c)

(* Faulty variant: the retries are counted, but not compared.              *)
RetryForever(c) ==
  /\ pc[c] = "check"
  /\ response[c] \in {None, Torn}
  /\ StartAttempt(c, "check")
  /\ UNCHANGED <<channelVars, left, result, requestVars, listenVars>>

(* Faulty variant: one retry too many.                                     *)
RetryUncounted(c) ==
  /\ pc[c] = "check"
  /\ response[c] \in {None, Torn}
  /\ StartAttempt(c, "check")
  /\ left' = [left EXCEPT ![c] = @ - 1]
  /\ UNCHANGED <<channelVars, result, requestVars, listenVars>>

(* A response that is being written may look empty or not.                 *)
Retry(c) ==
  /\ pc[c] = "check"
  /\ response[c] \in {None, Torn}
  /\ left[c] > 0
  /\ StartAttempt(c, "check")
  /\ left' = [left EXCEPT ![c] = @ - 1]
  /\ UNCHANGED <<channelVars, result, requestVars, listenVars>>

EndAttempts(c) ==
  /\ pc[c] = "check"
  /\ response[c] # None \/ left[c] = 0
  /\ Goto(c, "check", "unregister")
  /\ UNCHANGED <<channelVars, toSend, left, result, requestVars, listenVars>>

Unregister(c) ==
  /\ Goto(c, "unregister", "read")
  /\ registered' = registered \ {c}
  /\ UNCHANGED <<channelVars, toSend, left, result, wants, ready, response, listenVars>>

ReadResponse(c) ==
  /\ Goto(c, "read", "done")
  /\ result' = [result EXCEPT ![c] = response[c]]
  /\ UNCHANGED <<channelVars, toSend, left, requestVars, listenVars>>

(* The request object is destroyed, unless the listen thread has it.       *)
Return(c) ==
  /\ Goto(c, "done", "idle")
  /\ toSend' = [toSend EXCEPT ![c] = 0]
  /\ left' = [left EXCEPT ![c] = 0]
  /\ result' = [result EXCEPT ![c] = None]
  /\ wants' = [wants EXCEPT ![c] = None]
  /\ ready' = [ready EXCEPT ![c] = FALSE]
  /\ response' = [response EXCEPT ![c] = None]
  /\ held' = IF held = c THEN Orphan ELSE held
  /\ UNCHANGED <<channelVars, registered, lpc, telegram>>

-----------------------------------------------------------------------------
(* The listen thread: processPacket and checkForEnOceanRequest.            *)

HandleAck ==
  /\ lpc = "idle"
  /\ Deliver
  /\ UNCHANGED <<callVars, requestVars, listenVars>>

(* Faulty variant: the sender address alone selects the request.           *)
FindAnyRequest ==
  /\ lpc = "idle"
  /\ line # <<>>
  /\ Head(line) # Ack
  /\ line' = Tail(line)
  /\ \E c \in registered :
       /\ wants[c].device = Head(line).device
       /\ lpc' = "write" /\ held' = c /\ telegram' = Head(line)
  /\ UNCHANGED <<owner, phase, answered, callVars, requestVars>>

(* The first request in an unordered map that wants this telegram gets it, *)
(* answered or not; a telegram nobody wants goes to the central.           *)
FindRequest ==
  /\ lpc = "idle"
  /\ line # <<>>
  /\ Head(line) # Ack
  /\ line' = Tail(line)
  /\ LET candidates == {c \in registered : Matches(c, Head(line))}
     IN IF candidates = {}
          THEN UNCHANGED listenVars
          ELSE \E c \in candidates :
                 lpc' = "write" /\ held' = c /\ telegram' = Head(line)
  /\ UNCHANGED <<owner, phase, answered, callVars, requestVars>>

SetResponse(r) ==
  response' = IF held = Orphan THEN response ELSE [response EXCEPT ![held] = r]

WriteBegin ==
  /\ lpc = "write"
  /\ lpc' = "writing"
  /\ SetResponse(Torn)
  /\ UNCHANGED <<channelVars, callVars, registered, wants, ready, held, telegram>>

WriteEnd ==
  /\ lpc = "writing"
  /\ lpc' = "lock"
  /\ SetResponse(telegram)
  /\ UNCHANGED <<channelVars, callVars, registered, wants, ready, held, telegram>>

SetReady ==
  /\ lpc = "lock"
  /\ held \in Caller => pc[held] \notin HoldsRequest
  /\ lpc' = "idle"
  /\ held' = None
  /\ telegram' = None
  /\ ready' = IF held = Orphan THEN ready ELSE [ready EXCEPT ![held] = TRUE]
  /\ UNCHANGED <<channelVars, callVars, registered, wants, response>>

LoseFrames ==
  /\ lpc = "idle"
  /\ Lose \/ Discard
  /\ UNCHANGED <<callVars, requestVars, listenVars>>

(* A device sends, be it an answer or on its own.                          *)
DeviceSends(t) ==
  /\ Len(line) < MaxLine
  /\ line' = Append(line, t)
  /\ UNCHANGED <<owner, phase, answered, callVars, requestVars, listenVars>>

-----------------------------------------------------------------------------
SendStep(c) == BeginChunk(c) \/ TransmitChunk(c) \/ ChunkAccepted(c) \/ ChunkFailed(c)

CheckStep(c) == Retry(c) \/ EndAttempts(c)

CallStep(c) ==
  \/ LockRequest(c)
  \/ SendStep(c)
  \/ GiveUp(c)
  \/ Wake(c)
  \/ Expire(c)
  \/ CheckStep(c)
  \/ Unregister(c)
  \/ ReadResponse(c)
  \/ Return(c)

DeliverStep == HandleAck \/ FindRequest \/ WriteBegin \/ WriteEnd \/ SetReady

Next ==
  \/ \E c \in Caller :
       \/ CallStep(c)
       \/ SendRefused(c)
       \/ \E w \in Filter : Call(c, w)
  \/ DeliverStep
  \/ LoseFrames
  \/ \E t \in Telegram : DeviceSends(t)

Spec == Init /\ [][Next]_vars

(* Running threads go on, waits time out, the listen thread reads, and a   *)
(* thread that waits for _getResponseMutex gets it when it is free again   *)
(* and again.  That the interface refuses is not assumed.                  *)
FairSpec ==
  /\ Spec
  /\ \A c \in Caller : WF_vars(CallStep(c)) /\ SF_vars(BeginChunk(c))
  /\ WF_vars(DeliverStep)

-----------------------------------------------------------------------------
(* Correctness.                                                            *)

(* The request table is exact on every path out of the call, errors        *)
(* included: a request is registered from the call to the end of its last  *)
(* attempt and never after, so a late telegram goes to the central.        *)
RegistryExact ==
  registered = {c \in Caller : pc[c] \in Active}

(* Whatever telegrams arrive, and however many calls wait for the same     *)
(* device: a call returns only a telegram of the device it addressed that  *)
(* carries the remote management function it asked for.                    *)
AnswerMatchesRequest ==
  \A c \in Caller : pc[c] = "done" /\ result[c] \in Telegram => Matches(c, result[c])

(* While a thread sends with its request mutex held, the listen thread may *)
(* wait for that mutex, and so cannot deliver the acknowledgement the      *)
(* thread waits for.  The time limit on the acknowledgement resolves it:   *)
(* the listen thread always comes back.                                    *)
ListenerResumes == lpc # "idle" ~> lpc = "idle"

(* Every call returns: the retries are finite and every wait is limited.   *)
CallReturns == \A c \in Caller : pc[c] # "idle" ~> pc[c] = "idle"
=============================================================================
