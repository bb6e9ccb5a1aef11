-------------------------------- MODULE Gateway --------------------------------
(***************************************************************************)
(* The life of the interface to a Homegear Gateway, and its remote calls:  *)
(* the thread that listens opens the connection, again after an error,     *)
(* starts the thread of init each time, and delivers responses.  invoke    *)
(* sends a call and waits for any response.                                *)
(*                                                                         *)
(* The network loses the connection and the gateway answers late or never, *)
(* until it is steady.  Calls are numbered: MaxInvocations is the bound.   *)
(***************************************************************************)
EXTENDS Naturals

CONSTANT MaxInvocations

ASSUME GatewayAssumption == MaxInvocations \in Nat \ {0}

VARIABLES
  online,      \* the gateway can be reached
  steady,      \* and that is so from now on
  connected,   \* _tcpSocket is connected
  gwStopped,   \* _stopped
  reader,      \* the listening thread
  got,         \* the response it has read, or 0
  underWay,    \* calls whose response is on the way
  rpcResponse, \* _rpcResponse: the call it belongs to, or 0
  waiting,     \* _waitForResponse
  calling,     \* [thread -> where it is in invoke, and its call]
  invocations, \* number of calls so far
  doubtful,    \* history: calls given up, or sent twice
  answers      \* history: calls with the response they returned

netVars == <<online, steady, connected, gwStopped>>
callVars == <<rpcResponse, waiting, calling, invocations, doubtful, answers>>
gatewayVars == <<netVars, reader, got, underWay, callVars>>

(* init calls from its own thread; senders exclude each other.             *)
Invoker == {"init", "sender"}
Call == 0..MaxInvocations
NotCalling == [pc |-> "idle", call |-> 0]

GatewayTypeOK ==
  /\ {online, steady, connected, gwStopped, waiting} \subseteq BOOLEAN
  /\ reader \in {"open", "join", "read", "store"}
  /\ {got, rpcResponse, invocations} \subseteq Call
  /\ underWay \subseteq Call
  /\ calling \in
       [Invoker -> [pc : {"idle", "lock", "send", "wait"}, call : Call]]
  /\ doubtful \subseteq Call
  /\ answers \subseteq Call \X Call

GatewayInit ==
  /\ online \in BOOLEAN
  /\ steady = FALSE
  /\ connected = FALSE
  /\ gwStopped = TRUE
  /\ reader = "open"
  /\ got = 0
  /\ underWay = {}
  /\ rpcResponse = 0
  /\ waiting = FALSE
  /\ calling = [t \in Invoker |-> NotCalling]
  /\ invocations = 0
  /\ doubtful = {}
  /\ answers = {}
-----------------------------------------------------------------------------
GoOnline ==
  /\ ~online
  /\ online' = TRUE
  /\ UNCHANGED <<steady, connected, gwStopped, reader, got, underWay, callVars>>

(* The connection is lost with what is on the way.                         *)
GoOffline ==
  /\ online
  /\ ~steady
  /\ online' = FALSE
  /\ connected' = FALSE
  /\ underWay' = {}
  /\ UNCHANGED <<steady, gwStopped, reader, got, callVars>>

BecomeSteady ==
  /\ online
  /\ ~steady
  /\ steady' = TRUE
  /\ UNCHANGED <<online, connected, gwStopped, reader, got, underWay, callVars>>
-----------------------------------------------------------------------------
(* listen.  After an error or without a connection it is opened, a second  *)
(* later again; the thread of init is joined before it is started.         *)

Open ==
  /\ reader = "open"
  /\ connected' = online
  /\ underWay' = {}
  /\ \/ /\ online
        /\ gwStopped' = FALSE
        /\ reader' = "join"
     \/ /\ ~online
        /\ reader' = "read"
        /\ UNCHANGED gwStopped
  /\ UNCHANGED <<online, steady, got, callVars>>

StartInit ==
  /\ reader = "join"
  /\ calling["init"].pc = "idle"
  /\ reader' = "read"
  /\ calling' = [calling EXCEPT !["init"].pc =
                   IF invocations < MaxInvocations THEN "lock" ELSE "idle"]
  /\ UNCHANGED <<netVars, got, underWay, rpcResponse, waiting, invocations,
                 doubtful, answers>>

Lost ==
  /\ reader = "read"
  /\ gwStopped \/ ~connected
  /\ connected' = FALSE
  /\ underWay' = {}
  /\ reader' = "open"
  /\ UNCHANGED <<online, steady, gwStopped, got, callVars>>

(* Something throws: reading, or sending the response to a packet.         *)
Throw ==
  /\ reader = "read"
  /\ connected
  /\ ~gwStopped
  /\ ~steady
  /\ gwStopped' = TRUE
  /\ UNCHANGED <<online, steady, connected, reader, got, underWay, callVars>>

(* A response is dropped when nobody waits; that is asked without a mutex. *)
Receive ==
  /\ reader = "read"
  /\ connected
  /\ ~gwStopped
  /\ \E c \in underWay :
       /\ underWay' = underWay \ {c}
       /\ \/ /\ waiting
             /\ got' = c
             /\ reader' = "store"
          \/ /\ ~waiting
             /\ UNCHANGED <<got, reader>>
  /\ UNCHANGED <<netVars, callVars>>

(* _requestMutex is held by a call, but while it waits.                    *)
Store ==
  /\ reader = "store"
  /\ \A t \in Invoker : calling[t].pc # "send"
  /\ rpcResponse' = got
  /\ got' = 0
  /\ reader' = "read"
  /\ UNCHANGED <<netVars, underWay, waiting, calling, invocations, doubtful,
                 answers>>
-----------------------------------------------------------------------------
(* invoke.                                                                 *)

SendPacket ==
  /\ calling["sender"].pc = "idle"
  /\ connected
  /\ invocations < MaxInvocations
  /\ calling' = [calling EXCEPT !["sender"].pc = "lock"]
  /\ UNCHANGED <<netVars, reader, got, underWay, rpcResponse, waiting,
                 invocations, doubtful, answers>>

(* Faulty variant: the last response is not forgotten.                     *)
BeginCallOnly(t) ==
  /\ calling[t].pc = "lock"
  /\ \A u \in Invoker : calling[u].pc \notin {"send", "wait"}
  /\ invocations < MaxInvocations
  /\ invocations' = invocations + 1
  /\ calling' = [calling EXCEPT ![t] = [pc |-> "send", call |-> invocations']]
  /\ waiting' = TRUE
  /\ UNCHANGED <<netVars, reader, got, underWay, rpcResponse, doubtful,
                 answers>>

BeginCall(t) ==
  /\ calling[t].pc = "lock"
  /\ \A u \in Invoker : calling[u].pc \notin {"send", "wait"}
  /\ invocations < MaxInvocations
  /\ invocations' = invocations + 1
  /\ calling' = [calling EXCEPT ![t] = [pc |-> "send", call |-> invocations']]
  /\ waiting' = TRUE
  /\ rpcResponse' = 0
  /\ UNCHANGED <<netVars, reader, got, underWay, doubtful, answers>>

Send(t) ==
  /\ calling[t].pc = "send"
  /\ connected
  /\ underWay' = underWay \cup {calling[t].call}
  /\ calling' = [calling EXCEPT ![t].pc = "wait"]
  /\ UNCHANGED <<netVars, reader, got, rpcResponse, waiting, invocations,
                 doubtful, answers>>

(* Sending throws, perhaps after the gateway has got the call: the         *)
(* connection is opened anew and the call sent again, or given up in the   *)
(* middle of it, or, after five times, waited for although it is not sent. *)
SendThrows(t) ==
  LET c == calling[t].call
  IN /\ calling[t].pc = "send"
     /\ ~connected \/ ~steady
     /\ doubtful' = doubtful \cup {c}
     /\ \/ /\ online
           /\ connected' = TRUE
           /\ underWay' = {}
           /\ calling' \in {calling, [calling EXCEPT ![t].pc = "wait"]}
        \/ /\ connected
           /\ underWay' = underWay \cup {c}
           /\ UNCHANGED <<connected, calling>>
        \/ /\ ~online
           /\ calling' = [calling EXCEPT ![t] = NotCalling]
           /\ UNCHANGED <<connected, underWay>>
     /\ UNCHANGED <<online, steady, gwStopped, reader, got, rpcResponse,
                    waiting, invocations, answers>>

EndCall(t) ==
  /\ calling' = [calling EXCEPT ![t] = NotCalling]
  /\ waiting' = FALSE

Answered(t) ==
  /\ calling[t].pc = "wait"
  /\ rpcResponse # 0
  /\ answers' = answers \cup {<<calling[t].call, rpcResponse>>}
  /\ EndCall(t)
  /\ UNCHANGED <<netVars, reader, got, underWay, rpcResponse, invocations,
                 doubtful>>

(* The time is over, also if there is a response by now, or the interface  *)
(* is stopped.                                                             *)
GiveUpCall(t) ==
  /\ calling[t].pc = "wait"
  /\ doubtful' = doubtful \cup {calling[t].call}
  /\ EndCall(t)
  /\ UNCHANGED <<netVars, reader, got, underWay, rpcResponse, invocations,
                 answers>>

(* There are no more calls (bound).                                        *)
Forget(t) ==
  /\ calling[t].pc = "lock"
  /\ invocations = MaxInvocations
  /\ calling' = [calling EXCEPT ![t] = NotCalling]
  /\ UNCHANGED <<netVars, reader, got, underWay, rpcResponse, waiting,
                 invocations, doubtful, answers>>
-----------------------------------------------------------------------------
Reads == Open \/ StartInit \/ Lost \/ Throw \/ Receive \/ Store
Invokes(t) == \/ BeginCall(t) \/ Send(t) \/ SendThrows(t)
              \/ Answered(t) \/ GiveUpCall(t) \/ Forget(t)

GatewayNext ==
  \/ GoOnline \/ GoOffline \/ BecomeSteady
  \/ Reads
  \/ SendPacket
  \/ \E t \in Invoker : Invokes(t)

(* A call returns its own response, until one is given up or sent twice:   *)
(* responses carry nothing to tell them apart, and when one is late, each  *)
(* call may return the response of the call before, from then on.          *)
AnswerIsOwn ==
  \A a \in answers : a[1] # a[2] =>
    a[2] < a[1] /\ \E d \in doubtful : d <= a[2]
=============================================================================
