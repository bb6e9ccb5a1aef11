----------------------------- MODULE PeerRequests -----------------------------
(***************************************************************************)
(* The commands of one EnOceanPeer that wait for a frame as their          *)
(* acknowledgement: sendPacket, called by RPC threads, the resends of      *)
(* EnOceanPeer::worker, and the part of packetReceived that looks up       *)
(* _rpcRequests.                                                           *)
(*                                                                         *)
(* A synchronous command keeps its caller in sendPacket, with              *)
(* _sendPacketMutex held, until it is answered or out of resends; an       *)
(* asynchronous one leaves an entry behind, which the worker resends and   *)
(* the answer removes.  Entries are keyed by the frame that answers them,  *)
(* or by "ANY".  packetReceived uses the entry it found after it has       *)
(* released _rpcRequestsMutex, and removes it by key.                      *)
(*                                                                         *)
(* Time is left out: a resend may be due, a wait may end and an entry may  *)
(* be due for garbage collection at any time.  Condition variables do not  *)
(* wake up unless notified.                                                *)
(***************************************************************************)
EXTENDS Naturals, FiniteSets

CONSTANTS Caller,    \* threads that call sendPacket
          Receiver,  \* threads that call packetReceived, one per interface
          Request,   \* RpcRequest objects
          Frame,     \* frames an answer can be recognised by
          AnyKey,    \* the key "ANY"
          None,      \* no thread, no object, a packet with no known frame
          Resends    \* RESENDS_WHEN_NO_ACK, clamped to 0..20 by the code

ASSUME RequestsAssumption ==
  /\ AnyKey \notin Frame
  /\ None \notin Caller \cup Request \cup Frame \cup {AnyKey}
  /\ Resends \in 1..20

VARIABLES
  pc,          \* [Caller -> where the thread is in sendPacket]
  command,     \* [Caller -> the key and the mode of its command]
  mine,        \* [Caller -> the request object it created]
  tries,       \* [Caller -> transmissions of its synchronous command]
  signalled,   \* [Caller -> its wait was notified]
  success,     \* [Caller -> what sendPacket returns]
  sendMutex,   \* the holder of _sendPacketMutex
  table,       \* _rpcRequests: [key -> request or None]
  wait,        \* [Request -> wait]
  abort,       \* [Request -> abort]
  resends,     \* [Request -> resends, of an asynchronous request]
  answered,    \* [Request -> was a frame for it delivered?]
  rpc,         \* [Receiver -> where the thread is in packetReceived]
  key,         \* [Receiver -> the key it looked up]
  found,       \* [Receiver -> the request it found]
  wpc,         \* where worker is; it holds _rpcRequestsMutex unless "idle"
  todo,        \* keys the running pass has not visited
  doomed       \* elementsToErase of the running pass

callerVars == <<pc, command, mine, tries, signalled, success, sendMutex>>
requestVars == <<table, wait, abort, resends, answered>>
receiverVars == <<rpc, key, found>>
workerVars == <<wpc, todo, doomed>>
vars == <<callerVars, requestVars, receiverVars, workerVars>>

Key == Frame \cup {AnyKey}
Command == [key : Key, mode : {"sync", "async", "plain"}]

(* The loop of a synchronous command: its request is registered.           *)
InLoop(c) == pc[c] \in {"sending", "waiting"} /\ command[c].mode = "sync"

TypeOK ==
  /\ pc \in [Caller -> {"idle", "lock", "register", "once", "sending", "waiting",
                        "remove", "return"}]
  /\ command \in [Caller -> Command \cup {None}]
  /\ mine \in [Caller -> Request \cup {None}]
  /\ tries \in [Caller -> 0..(Resends + 1)]
  /\ signalled \in [Caller -> BOOLEAN]
  /\ success \in [Caller -> BOOLEAN]
  /\ sendMutex \in Caller \cup {None}
  /\ table \in [Key -> Request \cup {None}]
  /\ wait \in [Request -> BOOLEAN]
  /\ abort \in [Request -> BOOLEAN]
  /\ resends \in [Request -> 0..Resends]
  /\ answered \in [Request -> BOOLEAN]
  /\ rpc \in [Receiver -> {"idle", "any", "gate", "deliver"}]
  /\ key \in [Receiver -> Key \cup {None}]
  /\ found \in [Receiver -> Request \cup {None}]
  /\ wpc \in {"idle", "visit"}
  /\ todo \subseteq Key
  /\ doomed \subseteq Key

Init ==
  /\ pc = [c \in Caller |-> "idle"]
  /\ command = [c \in Caller |-> None]
  /\ mine = [c \in Caller |-> None]
  /\ tries = [c \in Caller |-> 0]
  /\ signalled = [c \in Caller |-> FALSE]
  /\ success = [c \in Caller |-> FALSE]
  /\ sendMutex = None
  /\ table = [k \in Key |-> None]
  /\ wait = [r \in Request |-> FALSE]
  /\ abort = [r \in Request |-> FALSE]
  /\ resends = [r \in Request |-> 0]
  /\ answered = [r \in Request |-> FALSE]
  /\ rpc = [x \in Receiver |-> "idle"]
  /\ key = [x \in Receiver |-> None]
  /\ found = [x \in Receiver |-> None]
  /\ wpc = "idle"
  /\ todo = {}
  /\ doomed = {}

Goto(c, from, to) ==
  /\ pc[c] = from
  /\ pc' = [pc EXCEPT ![c] = to]

(* _rpcRequestsMutex: the worker keeps it while it resends, everyone else  *)
(* for one step.                                                           *)
TableFree == wpc = "idle"

(* conditionVariableMutex: its caller releases it in the wait only.        *)
CvFree(r) == \A c \in Caller : mine[c] = r => pc[c] # "sending"

Free(r) ==
  /\ \A c \in Caller : mine[c] # r
  /\ \A k \in Key : table[k] # r
  /\ \A x \in Receiver : found[x] # r

-----------------------------------------------------------------------------
(* sendPacket, step by step.                                               *)

Call(c, m) ==
  /\ Goto(c, "idle", "lock")
  /\ command' = [command EXCEPT ![c] = m]
  /\ UNCHANGED <<mine, tries, signalled, success, sendMutex, requestVars,
                 receiverVars, workerVars>>

(* Faulty variant: commands do not exclude each other.                     *)
LockNothing(c) ==
  /\ Goto(c, "lock", IF command[c].mode = "plain" THEN "once" ELSE "register")
  /\ UNCHANGED <<command, mine, tries, signalled, success, sendMutex, requestVars,
                 receiverVars, workerVars>>

(* A command without responseId, or without resends, is sent just once.    *)
Lock(c) ==
  /\ sendMutex = None
  /\ sendMutex' = c
  /\ Goto(c, "lock", IF command[c].mode = "plain" THEN "once" ELSE "register")
  /\ UNCHANGED <<command, mine, tries, signalled, success, requestVars,
                 receiverVars, workerVars>>

(* The request replaces the one that is registered for the same answer.    *)
Register(c) ==
  /\ TableFree
  /\ Goto(c, "register", IF command[c].mode = "sync" THEN "sending" ELSE "once")
  /\ \E r \in Request :
       /\ Free(r)
       /\ mine' = [mine EXCEPT ![c] = r]
       /\ table' = [table EXCEPT ![command[c].key] = r]
       /\ wait' = [wait EXCEPT ![r] = command[c].mode = "sync"]
       /\ resends' = [resends EXCEPT ![r] = IF command[c].mode = "sync" THEN 0 ELSE 1]
       /\ answered' = [answered EXCEPT ![r] = FALSE]
       /\ abort' = [q \in Request |->
                      IF q = r THEN FALSE ELSE abort[q] \/ q = table[command[c].key]]
  /\ UNCHANGED <<command, tries, signalled, success, sendMutex, receiverVars, workerVars>>

(* One transmission outside the loop; the interface may refuse it.         *)
SendOnce(c) ==
  /\ Goto(c, "once", "return")
  /\ success' \in {success, [success EXCEPT ![c] = TRUE]}
  /\ UNCHANGED <<command, mine, tries, signalled, sendMutex, requestVars,
                 receiverVars, workerVars>>

Send(c) ==
  /\ Goto(c, "sending", "waiting")
  /\ tries' = [tries EXCEPT ![c] = @ + 1]
  /\ UNCHANGED <<command, mine, signalled, success, sendMutex, requestVars,
                 receiverVars, workerVars>>

(* When the interface refuses, sendPacket returns at once: the entry stays. *)
SendFails(c) ==
  /\ Goto(c, "sending", "return")
  /\ UNCHANGED <<command, mine, tries, signalled, success, sendMutex, requestVars,
                 receiverVars, workerVars>>

EndLoop(c, ok) ==
  /\ Goto(c, "waiting", "remove")
  /\ success' = [success EXCEPT ![c] = ok]
  /\ UNCHANGED <<command, mine, tries, signalled, sendMutex, requestVars,
                 receiverVars, workerVars>>

(* wait_for reports a notification, or abort was set: an aborted command   *)
(* ends like an answered one.                                              *)
Released(c) == signalled[c] \/ abort[mine[c]]

Wake(c) == pc[c] = "waiting" /\ Released(c) /\ EndLoop(c, TRUE)

Unanswered(c) == pc[c] = "waiting" /\ ~signalled[c] /\ ~abort[mine[c]]

NoAnswer(c) ==
  /\ Unanswered(c)
  /\ tries[c] = Resends + 1
  /\ EndLoop(c, FALSE)

(* Faulty variant: every resend starts the count anew.                     *)
SendAgainForever(c) ==
  /\ Unanswered(c)
  /\ Goto(c, "waiting", "sending")
  /\ tries' = [tries EXCEPT ![c] = 0]
  /\ UNCHANGED <<command, mine, signalled, success, sendMutex, requestVars,
                 receiverVars, workerVars>>

SendAgain(c) ==
  /\ Unanswered(c)
  /\ tries[c] <= Resends
  /\ Goto(c, "waiting", "sending")
  /\ UNCHANGED <<command, mine, tries, signalled, success, sendMutex, requestVars,
                 receiverVars, workerVars>>

(* By key, whatever is registered there.                                   *)
Remove(c) ==
  /\ TableFree
  /\ Goto(c, "remove", "return")
  /\ table' = [table EXCEPT ![command[c].key] = None]
  /\ UNCHANGED <<command, mine, tries, signalled, success, sendMutex, wait, abort,
                 resends, answered, receiverVars, workerVars>>

Return(c) ==
  /\ Goto(c, "return", "idle")
  /\ command' = [command EXCEPT ![c] = None]
  /\ mine' = [mine EXCEPT ![c] = None]
  /\ tries' = [tries EXCEPT ![c] = 0]
  /\ signalled' = [signalled EXCEPT ![c] = FALSE]
  /\ success' = [success EXCEPT ![c] = FALSE]
  /\ sendMutex' = None
  /\ UNCHANGED <<requestVars, receiverVars, workerVars>>

-----------------------------------------------------------------------------
(* packetReceived, from the lookup on.                                     *)

Found(x, k) ==
  /\ rpc' = [rpc EXCEPT ![x] = "gate"]
  /\ key' = [key EXCEPT ![x] = k]
  /\ found' = [found EXCEPT ![x] = table[k]]

(* A packet has a known frame, or None.                                    *)
Receive(x, f) ==
  /\ rpc[x] = "idle"
  /\ TableFree
  /\ IF f # None /\ table[f] # None
       THEN Found(x, f)
       ELSE rpc' = [rpc EXCEPT ![x] = "any"] /\ UNCHANGED <<key, found>>
  /\ UNCHANGED <<callerVars, requestVars, workerVars>>

LookUpAny(x) ==
  /\ rpc[x] = "any"
  /\ TableFree
  /\ IF table[AnyKey] # None
       THEN Found(x, AnyKey)
       ELSE rpc' = [rpc EXCEPT ![x] = "idle"] /\ UNCHANGED <<key, found>>
  /\ UNCHANGED <<callerVars, requestVars, workerVars>>

(* The receiver passes through the request's mutex, so that it does not    *)
(* notify a caller that is about to wait.                                  *)
Gate(x) ==
  /\ rpc[x] = "gate"
  /\ CvFree(found[x])
  /\ rpc' = [rpc EXCEPT ![x] = "deliver"]
  /\ UNCHANGED <<callerVars, requestVars, key, found, workerVars>>

EndDelivery(x) ==
  /\ rpc' = [rpc EXCEPT ![x] = "idle"]
  /\ key' = [key EXCEPT ![x] = None]
  /\ found' = [found EXCEPT ![x] = None]
  /\ answered' = [answered EXCEPT ![found[x]] = TRUE]

(* A caller that has stopped waiting meanwhile does not notice.            *)
Notify(x) ==
  /\ rpc[x] = "deliver"
  /\ wait[found[x]]
  /\ signalled' = [c \in Caller |->
       signalled[c] \/ (mine[c] = found[x] /\ pc[c] = "waiting")]
  /\ EndDelivery(x)
  /\ UNCHANGED <<pc, command, mine, tries, success, sendMutex, table, wait, abort,
                 resends, workerVars>>

(* Faulty variant: the entry stays, to be resent once more.                *)
ConfirmKept(x) ==
  /\ rpc[x] = "deliver"
  /\ ~wait[found[x]]
  /\ TableFree
  /\ EndDelivery(x)
  /\ UNCHANGED <<callerVars, table, wait, abort, resends, workerVars>>

(* By key again: the entry may be another one by now.                      *)
Confirm(x) ==
  /\ rpc[x] = "deliver"
  /\ ~wait[found[x]]
  /\ TableFree
  /\ table' = [table EXCEPT ![key[x]] = None]
  /\ EndDelivery(x)
  /\ UNCHANGED <<callerVars, wait, abort, resends, workerVars>>

-----------------------------------------------------------------------------
(* The resends of worker.                                                  *)

BeginPass ==
  /\ wpc = "idle"
  /\ wpc' = "visit"
  /\ todo' = {k \in Key : table[k] # None}
  /\ UNCHANGED <<callerVars, requestVars, receiverVars, doomed>>

Visit(k) == wpc = "visit" /\ k \in todo /\ todo' = todo \ {k}

(* Not due yet.                                                            *)
Skip(k) ==
  /\ Visit(k)
  /\ UNCHANGED <<callerVars, requestVars, receiverVars, wpc, doomed>>

(* Faulty variant: entries of synchronous commands are never collected.    *)
CollectNone(k) ==
  /\ Visit(k)
  /\ ~wait[table[k]] /\ resends[table[k]] = Resends
  /\ doomed' = doomed \cup {k}
  /\ UNCHANGED <<callerVars, requestVars, receiverVars, wpc>>

(* A synchronous command's entry that is 20 seconds old, or an             *)
(* asynchronous one that is out of resends.                                *)
Collect(k) ==
  /\ Visit(k)
  /\ wait[table[k]] \/ resends[table[k]] = Resends
  /\ doomed' = doomed \cup {k}
  /\ UNCHANGED <<callerVars, requestVars, receiverVars, wpc>>

(* Faulty variant: the count of the synchronous commands.                  *)
ResendOnceMore(k) ==
  /\ Visit(k)
  /\ ~wait[table[k]]
  /\ resends' = [resends EXCEPT ![table[k]] = @ + 1]
  /\ UNCHANGED <<callerVars, table, wait, abort, answered, receiverVars, wpc, doomed>>

Resend(k) ==
  /\ Visit(k)
  /\ ~wait[table[k]]
  /\ resends[table[k]] < Resends
  /\ resends' = [resends EXCEPT ![table[k]] = @ + 1]
  /\ UNCHANGED <<callerVars, table, wait, abort, answered, receiverVars, wpc, doomed>>

(* A refused resend ends the pass, and counts for nothing.                 *)
ResendFails(k) ==
  /\ Visit(k)
  /\ ~wait[table[k]]
  /\ resends[table[k]] < Resends
  /\ todo' = {}
  /\ UNCHANGED <<callerVars, requestVars, receiverVars, wpc, doomed>>

EndPass ==
  /\ wpc = "visit"
  /\ todo = {}
  /\ wpc' = "idle"
  /\ table' = [k \in Key |-> IF k \in doomed THEN None ELSE table[k]]
  /\ doomed' = {}
  /\ UNCHANGED <<callerVars, wait, abort, resends, answered, receiverVars, todo>>

-----------------------------------------------------------------------------
SendStep(c) == Send(c) \/ SendFails(c) \/ SendOnce(c)

WaitStep(c) == Wake(c) \/ NoAnswer(c) \/ SendAgain(c)

TableStep(c) == Register(c) \/ Remove(c)

CallerStep(c) == SendStep(c) \/ WaitStep(c) \/ TableStep(c) \/ Return(c)

DeliverStep(x) == LookUpAny(x) \/ Gate(x) \/ Notify(x) \/ Confirm(x)

WorkerStep ==
  \/ BeginPass
  \/ EndPass
  \/ \E k \in Key : Skip(k) \/ Collect(k) \/ Resend(k) \/ ResendFails(k)

Next ==
  \/ \E c \in Caller : CallerStep(c) \/ Lock(c) \/ \E m \in Command : Call(c, m)
  \/ \E x \in Receiver : DeliverStep(x) \/ \E f \in Frame \cup {None} : Receive(x, f)
  \/ WorkerStep

Spec == Init /\ [][Next]_vars

(* Threads that run go on, and whoever waits for a mutex that is free      *)
(* again and again gets it.  The worker runs all the time; resends come    *)
(* due, entries grow old, and the interface does not refuse for ever.      *)
FairSpec ==
  /\ Spec
  /\ \A c \in Caller : SF_vars(Lock(c) \/ CallerStep(c))
  /\ \A x \in Receiver : SF_vars(DeliverStep(x))
  /\ WF_vars(WorkerStep)
  /\ \A k \in Key : SF_vars(Collect(k) \/ Resend(k))

-----------------------------------------------------------------------------
(* Correctness.                                                            *)

(* While a synchronous command is in its loop, nobody aborts it and nobody *)
(* takes its key: at worst its entry has been removed.  A second command   *)
(* for the same answer, which would do both, waits for _sendPacketMutex.   *)
LoopUndisturbed ==
  \A c \in Caller : InLoop(c) =>
    /\ ~abort[mine[c]]
    /\ table[command[c].key] \in {mine[c], None}

(* A synchronous command that reports success was answered: a frame was    *)
(* delivered to its own request, after the request was created.  Abort     *)
(* would report success too, and no other command's answer counts.         *)
SuccessIsAnswered ==
  \A c \in Caller :
    pc[c] = "remove" /\ success[c] => answered[mine[c]]

(* An asynchronous command is not resent once its answer was processed.    *)
AnsweredNotResent ==
  [][\A r \in Request : resends'[r] > resends[r] /\ resends[r] > 0 => ~answered[r]]_vars

(* Every command returns to its caller.                                    *)
CommandReturns == \A c \in Caller : pc[c] # "idle" ~> pc[c] = "idle"

(* No entry stays: it is answered, replaced, given up by the worker or, if *)
(* its caller has left it behind, collected.                               *)
EntryLeaves == \A k \in Key, r \in Request : table[k] = r ~> table[k] # r
=============================================================================
