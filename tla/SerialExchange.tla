---------------------------- MODULE SerialExchange ----------------------------
(***************************************************************************)
(* IEnOceanInterface::getResponse, called by any thread, against           *)
(* checkForSerialRequest, called by the listen thread, with the life cycle *)
(* of the device they share (Usb300::listen and Usb300::reconnect).        *)
(*                                                                         *)
(* One command of packet type 0x02 at a time: _getResponseMutex is held    *)
(* from the registration in _serialRequests to the return.  The listen     *)
(* thread finds the request under _serialRequestsMutex, then writes its    *)
(* response WITHOUT the request's mutex, then sets mutexReady under it.    *)
(*                                                                         *)
(* Critical sections of _serialRequestsMutex block on nothing and are one  *)
(* step each.  A SerialRequest object is a member of Request; an object    *)
(* nobody refers to any more can be allocated again, as memory is.  The    *)
(* acknowledgement the transceiver sends for a command is named by the     *)
(* request object of that command, which the frame itself does not carry:  *)
(* the code cannot tell the acknowledgements apart, the properties can.    *)
(***************************************************************************)
EXTENDS Sequences, Naturals

CONSTANTS Caller,    \* threads that call getResponse
          Request,   \* SerialRequest objects
          None,      \* no thread, no object, an empty response
          Torn       \* a response read or left half written (a data race)

ASSUME ExchangeAssumption ==
  /\ None \notin Caller \cup Request
  /\ Torn \notin Request \cup {None}

VARIABLES
  pc,         \* [Caller -> where the thread is in getResponse]
  mine,       \* [Caller -> the request object of the running call]
  outcome,    \* [Caller -> what wait_for reported]
  result,     \* [Caller -> the responsePacket the call hands back]
  dirty,      \* [Caller -> was an older frame on the line at registration?]
  mutex,      \* the holder of _getResponseMutex
  table,      \* _serialRequests[0x02]
  ready,      \* [Request -> mutexReady]
  response,   \* [Request -> response]
  inbox,      \* frames of the transceiver the listen thread has not read
  lpc,        \* where the listen thread is in checkForSerialRequest
  held,       \* the request object it found
  ack,        \* the frame it is delivering
  stopped,    \* _stopped
  isOpen      \* the serial device is open

callerVars == <<pc, mine, outcome, result, dirty>>
requestVars == <<mutex, table, ready, response>>
listenVars == <<lpc, held, ack>>
deviceVars == <<inbox, stopped, isOpen>>
vars == <<callerVars, requestVars, listenVars, deviceVars>>

Registered == {"send", "waiting", "copy", "erase"}
Exchanging == Registered \cup {"return"}
HoldsRequest == {"copy", "erase", "return"}

TypeOK ==
  /\ pc \in [Caller -> {"idle", "lock"} \cup Exchanging]
  /\ mine \in [Caller -> Request \cup {None}]
  /\ outcome \in [Caller -> {"none", "answered", "expired"}]
  /\ result \in [Caller -> Request \cup {None, Torn}]
  /\ dirty \in [Caller -> BOOLEAN]
  /\ mutex \in Caller \cup {None}
  /\ table \in Request \cup {None}
  /\ ready \in [Request -> BOOLEAN]
  /\ response \in [Request -> Request \cup {None, Torn}]
  /\ inbox \in Seq(Request)
  /\ lpc \in {"idle", "write", "writing", "lock"}
  /\ held \in Request \cup {None}
  /\ ack \in Request \cup {None}
  /\ stopped \in BOOLEAN
  /\ isOpen \in BOOLEAN

Init ==
  /\ pc = [c \in Caller |-> "idle"]
  /\ mine = [c \in Caller |-> None]
  /\ outcome = [c \in Caller |-> "none"]
  /\ result = [c \in Caller |-> None]
  /\ dirty = [c \in Caller |-> FALSE]
  /\ mutex = None
  /\ table = None
  /\ ready = [r \in Request |-> FALSE]
  /\ response = [r \in Request |-> None]
  /\ inbox = <<>>
  /\ lpc = "idle"
  /\ held = None
  /\ ack = None
  /\ stopped = FALSE
  /\ isOpen = TRUE

Goto(c, from, to) ==
  /\ pc[c] = from
  /\ pc' = [pc EXCEPT ![c] = to]

(* The request's own mutex: its caller holds it from the end of the wait   *)
(* until the call returns.                                                 *)
RequestLocked(r) == \E c \in Caller : mine[c] = r /\ pc[c] \in HoldsRequest

(* An object that neither a caller, nor the listen thread, nor a frame     *)
(* still under way refers to.                                              *)
Free(r) ==
  /\ \A c \in Caller : mine[c] # r
  /\ r \notin {held, ack}
  /\ \A i \in 1..Len(inbox) : inbox[i] # r

-----------------------------------------------------------------------------
(* getResponse, step by step.                                              *)

Enter(c) ==
  /\ ~stopped
  /\ Goto(c, "idle", "lock")
  /\ UNCHANGED <<mine, outcome, result, dirty, requestVars, listenVars, deviceVars>>

RegisterRequest(c, r) ==
  /\ Free(r)
  /\ Goto(c, "lock", "send")
  /\ mine' = [mine EXCEPT ![c] = r]
  /\ dirty' = [dirty EXCEPT ![c] = inbox # <<>>]
  /\ mutex' = c
  /\ table' = r
  /\ ready' = [ready EXCEPT ![r] = FALSE]
  /\ response' = [response EXCEPT ![r] = None]
  /\ UNCHANGED <<outcome, result, listenVars, deviceVars>>

(* Faulty variant: a registration that does not wait for the mutex.        *)
RegisterUnlocked(c) == \E r \in Request : RegisterRequest(c, r)

Register(c) == mutex = None /\ \E r \in Request : RegisterRequest(c, r)

(* Faulty variant: the command is written before its request exists.       *)
RawSendUnregistered(c) ==
  /\ Goto(c, "lock", "waiting")
  /\ inbox' = IF isOpen THEN Append(inbox, mine[c]) ELSE inbox
  /\ UNCHANGED <<mine, outcome, result, dirty, requestVars, listenVars, stopped, isOpen>>

(* Nothing is written, and nothing thrown, while the device is closed.     *)
RawSend(c) ==
  /\ Goto(c, "send", "waiting")
  /\ inbox' = IF isOpen THEN Append(inbox, mine[c]) ELSE inbox
  /\ UNCHANGED <<mine, outcome, result, dirty, requestVars, listenVars, stopped, isOpen>>

EndWait(c, how) ==
  /\ Goto(c, "waiting", "copy")
  /\ outcome' = [outcome EXCEPT ![c] = how]
  /\ UNCHANGED <<mine, result, dirty, requestVars, listenVars, deviceVars>>

Wake(c) == pc[c] = "waiting" /\ ready[mine[c]] /\ EndWait(c, "answered")

(* Faulty variant: an exchange that never gives up.                        *)
NeverExpire(c) == FALSE /\ EndWait(c, "expired")

Expire(c) == pc[c] = "waiting" /\ ~ready[mine[c]] /\ EndWait(c, "expired")

CopyResponse(c) ==
  /\ Goto(c, "copy", "erase")
  /\ result' = [result EXCEPT ![c] = response[mine[c]]]
  /\ UNCHANGED <<mine, outcome, dirty, requestVars, listenVars, deviceVars>>

(* Faulty variant: a late frame finds the finished request again.          *)
EraseForgotten(c) ==
  /\ Goto(c, "erase", "return")
  /\ UNCHANGED <<mine, outcome, result, dirty, requestVars, listenVars, deviceVars>>

Erase(c) ==
  /\ Goto(c, "erase", "return")
  /\ table' = None
  /\ UNCHANGED <<mine, outcome, result, dirty, mutex, ready, response, listenVars, deviceVars>>

(* The caller looks at the answer: init, setBaseAddress and                *)
(* getDutyCycleInfo set _stopped when they give up on it.                  *)
Return(c) ==
  /\ Goto(c, "return", "idle")
  /\ mine' = [mine EXCEPT ![c] = None]
  /\ outcome' = [outcome EXCEPT ![c] = "none"]
  /\ result' = [result EXCEPT ![c] = None]
  /\ dirty' = [dirty EXCEPT ![c] = FALSE]
  /\ mutex' = None
  /\ stopped' \in {stopped, TRUE}
  /\ UNCHANGED <<table, ready, response, listenVars, inbox, isOpen>>

-----------------------------------------------------------------------------
(* The listen thread: checkForSerialRequest, step by step.                 *)

FindRequest ==
  /\ lpc = "idle"
  /\ ~stopped
  /\ isOpen
  /\ inbox # <<>>
  /\ inbox' = Tail(inbox)
  /\ IF table = None
       THEN UNCHANGED listenVars
       ELSE /\ lpc' = "write"
            /\ held' = table
            /\ ack' = Head(inbox)
  /\ UNCHANGED <<callerVars, requestVars, stopped, isOpen>>

(* Faulty variant: the waiter is released before the response is there.     *)
WriteBeginReadyFirst ==
  /\ lpc = "write"
  /\ lpc' = "writing"
  /\ response' = [response EXCEPT ![held] = Torn]
  /\ ready' = [ready EXCEPT ![held] = TRUE]
  /\ UNCHANGED <<callerVars, mutex, table, held, ack, deviceVars>>

WriteBegin ==
  /\ lpc = "write"
  /\ lpc' = "writing"
  /\ response' = [response EXCEPT ![held] = Torn]
  /\ UNCHANGED <<callerVars, mutex, table, ready, held, ack, deviceVars>>

WriteEnd ==
  /\ lpc = "writing"
  /\ lpc' = "lock"
  /\ response' = [response EXCEPT ![held] = ack]
  /\ UNCHANGED <<callerVars, mutex, table, ready, held, ack, deviceVars>>

SetReady ==
  /\ lpc = "lock"
  /\ ~RequestLocked(held)
  /\ lpc' = "idle"
  /\ held' = None
  /\ ack' = None
  /\ ready' = [ready EXCEPT ![held] = TRUE]
  /\ UNCHANGED <<callerVars, mutex, table, response, deviceVars>>

(* A frame whose checksum is wrong is dropped.                             *)
DropFrame ==
  /\ lpc = "idle"
  /\ ~stopped
  /\ isOpen
  /\ inbox # <<>>
  /\ inbox' = Tail(inbox)
  /\ UNCHANGED <<callerVars, requestVars, listenVars, stopped, isOpen>>

ReadError ==
  /\ lpc = "idle"
  /\ ~stopped
  /\ stopped' = TRUE
  /\ UNCHANGED <<callerVars, requestVars, listenVars, inbox, isOpen>>

CloseDevice ==
  /\ lpc = "idle"
  /\ stopped
  /\ isOpen
  /\ isOpen' = FALSE
  /\ inbox' = <<>>
  /\ UNCHANGED <<callerVars, requestVars, listenVars, stopped>>

Reopen ==
  /\ lpc = "idle"
  /\ ~isOpen
  /\ isOpen' = TRUE
  /\ stopped' = FALSE
  /\ UNCHANGED <<callerVars, requestVars, listenVars, inbox>>

-----------------------------------------------------------------------------
CallerStep(c) ==
  \/ Enter(c)
  \/ Register(c)
  \/ RawSend(c)
  \/ Wake(c)
  \/ Expire(c)
  \/ CopyResponse(c)
  \/ Erase(c)
  \/ Return(c)

DeliverStep == FindRequest \/ WriteBegin \/ WriteEnd \/ SetReady

ListenStep == DeliverStep \/ DropFrame \/ ReadError \/ CloseDevice \/ Reopen

Next == ListenStep \/ \E c \in Caller : CallerStep(c)

Spec == Init /\ [][Next]_vars

(* A thread that is running goes on, and wait_for does return.  Whether a  *)
(* thread calls at all, and which one gets the mutex, is left open.        *)
ExchangeProgress(c) ==
  RawSend(c) \/ Wake(c) \/ Expire(c) \/ CopyResponse(c) \/ Erase(c) \/ Return(c)

FairSpec ==
  /\ Spec
  /\ \A c \in Caller : WF_vars(ExchangeProgress(c))
  /\ WF_vars(DeliverStep)

-----------------------------------------------------------------------------
(* Correctness.                                                            *)

(* Exchanges exclude each other, from the registration to the return, and  *)
(* _serialRequests holds exactly the request of the exchange under way: no *)
(* entry outlives its call, none is overwritten by another thread's.       *)
OneExchange ==
  /\ \A c \in Caller : pc[c] \in Exchanging <=> mutex = c
  /\ \A c \in Caller : pc[c] \in Registered => table = mine[c]
  /\ table # None => \E c \in Caller : pc[c] \in Registered /\ mine[c] = table

(* getResponse matches by packet type only and the listen thread writes    *)
(* the response without a lock.  Still, an exchange that starts on a quiet *)
(* line never hands back the acknowledgement of another command, and when  *)
(* its wait was answered it hands back its own, whole.                     *)
OwnAnswerOnQuietLine ==
  \A c \in Caller : pc[c] = "return" /\ ~dirty[c] =>
    /\ result[c] \in {mine[c], None, Torn}
    /\ outcome[c] = "answered" => result[c] = mine[c]

(* Every exchange ends, whether the transceiver answers or not.            *)
ExchangeEnds == \A c \in Caller : mutex = c ~> mutex # c

(* Seen from outside, an exchange is one command on a half-duplex channel: *)
(* each of its steps is a step of SerialChannel, or none.  The frame that  *)
(* the listen thread is delivering is still on the channel's line.         *)
Acks(n) == [i \in 1..n |-> "ack"]

Undelivered == Len(inbox) + IF lpc = "idle" THEN 0 ELSE 1

Channel == INSTANCE SerialChannel WITH
  Telegram <- {},
  Ack <- "ack",
  owner <- mutex,
  phase <- IF mutex = None THEN "free" ELSE IF pc[mutex] = "send" THEN "open" ELSE "sent",
  line <- Acks(Undelivered),
  answered <- mutex # None /\ ready[mine[mutex]]

ImplementsChannel == Channel!ChannelSpec
=============================================================================
