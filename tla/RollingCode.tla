------------------------------ MODULE RollingCode ------------------------------
(***************************************************************************)
(* The rolling code with which an EnOceanPeer encrypts what it sends       *)
(* (_rollingCodeInbound, "inbound" for the device): encryptPacket as it is *)
(* called by sendPacket and sendAndReceivePacket, which hold               *)
(* _sendPacketMutex, and by the resends of worker, which do not; the       *)
(* database the code is saved to; and the restart, which loads the saved   *)
(* code and skips ahead.                                                   *)
(*                                                                         *)
(* encryptPacket reads the code once to encrypt and once to increment it:  *)
(* the variable is atomic, the pair is not.  All chunks of a packet are    *)
(* encrypted, then all are sent.                                           *)
(*                                                                         *)
(* Database writes are queued in order, and lost in a crash.  The model    *)
(* assumes that at most MaxQueue of them are pending, and that the write a *)
(* restart begins with is stored before the next crash.                    *)
(*                                                                         *)
(* Bounds: MaxChunks chunks a packet, MaxTelegrams telegrams, codes up to  *)
(* MaxCode (the code's own limit, 2^32, is out of reach).                  *)
(***************************************************************************)
EXTENDS Sequences, Naturals

CONSTANTS Caller,   \* threads in sendPacket and sendAndReceivePacket
          Worker,   \* threads in worker
          None,     \* no thread
          Skip,     \* codes skipped at a restart (1000)
          MaxQueue, MaxChunks, MaxTelegrams, MaxCode

ASSUME RollingCodeAssumption ==
  /\ Caller \cap Worker = {}
  /\ None \notin Caller
  /\ {Skip, MaxQueue, MaxChunks, MaxTelegrams, MaxCode} \subseteq Nat \ {0}
  /\ MaxQueue <= Skip

Thread == Caller \cup Worker

VARIABLES
  pc,         \* [Thread -> where it is]
  left,       \* [Thread -> chunks it has yet to encrypt]
  seen,       \* [Thread -> the code it encrypts the current chunk with]
  next,       \* [Thread -> the code it will store]
  packets,    \* [Thread -> codes of the encrypted chunks not yet on the air]
  sendMutex,  \* the holder of _sendPacketMutex
  code,       \* _rollingCodeInbound
  queue,      \* codes on their way to the database
  saved,      \* the code in the database
  air         \* codes in the order in which their telegrams were first sent

threadVars == <<pc, left, seen, next, packets>>
codeVars == <<code, queue, saved>>
vars == <<threadVars, sendMutex, codeVars, air>>

Encrypting == {"read", "load", "store", "save"}

TypeOK ==
  /\ pc \in [Thread -> {"idle", "send", "failed", "sent"} \cup Encrypting]
  /\ left \in [Thread -> 0..MaxChunks]
  /\ seen \in [Thread -> Nat]
  /\ next \in [Thread -> Nat]
  /\ packets \in [Thread -> Seq(Nat)]
  /\ sendMutex \in Caller \cup {None}
  /\ code \in Nat
  /\ queue \in Seq(Nat)
  /\ Len(queue) <= MaxQueue
  /\ saved \in Nat
  /\ air \in Seq(Nat)

(* The device was taught in with code 1, which is in the database.         *)
Init ==
  /\ pc = [t \in Thread |-> "idle"]
  /\ left = [t \in Thread |-> 0]
  /\ seen = [t \in Thread |-> 0]
  /\ next = [t \in Thread |-> 0]
  /\ packets = [t \in Thread |-> <<>>]
  /\ sendMutex = None
  /\ code = 1
  /\ queue = <<>>
  /\ saved = 1
  /\ air = <<>>

Goto(t, from, to) ==
  /\ pc[t] = from
  /\ pc' = [pc EXCEPT ![t] = to]

-----------------------------------------------------------------------------
(* encryptPacket, step by step.                                            *)

BeginPacket(t, from) ==
  /\ Goto(t, from, "read")
  /\ \E n \in 1..MaxChunks : left' = [left EXCEPT ![t] = n]
  /\ packets' = [packets EXCEPT ![t] = <<>>]
  /\ UNCHANGED <<seen, next, codeVars, air>>

(* Faulty variant: sendPacket without its mutex.                           *)
LockNothing(c) == sendMutex' = sendMutex /\ BeginPacket(c, "idle")

Lock(c) == sendMutex = None /\ sendMutex' = c /\ BeginPacket(c, "idle")

(* worker does not take the mutex.                                         *)
BeginResend(w) == UNCHANGED sendMutex /\ BeginPacket(w, "idle")

ReadCode(t) ==
  /\ packets[t] = <<>> => code + MaxChunks <= MaxCode
  /\ Goto(t, "read", "load")
  /\ seen' = [seen EXCEPT ![t] = code]
  /\ UNCHANGED <<left, next, packets, sendMutex, codeVars, air>>

LoadCode(t) ==
  /\ Goto(t, "load", "store")
  /\ next' = [next EXCEPT ![t] = code + 1]
  /\ UNCHANGED <<left, seen, packets, sendMutex, codeVars, air>>

StoreCode(t) ==
  /\ Goto(t, "store", "save")
  /\ code' = next[t]
  /\ UNCHANGED <<left, seen, next, packets, sendMutex, queue, saved, air>>

(* The new code is queued for the database and the chunk is encrypted with *)
(* the old one.                                                            *)
SaveCode(t) ==
  /\ Len(queue) < MaxQueue
  /\ Goto(t, "save", IF left[t] = 1 THEN "send" ELSE "read")
  /\ queue' = Append(queue, next[t])
  /\ left' = [left EXCEPT ![t] = @ - 1]
  /\ packets' = [packets EXCEPT ![t] = Append(@, seen[t])]
  /\ UNCHANGED <<seen, next, sendMutex, code, saved, air>>

Finish(t, from) ==
  /\ Goto(t, from, "idle")
  /\ left' = [left EXCEPT ![t] = 0]
  /\ seen' = [seen EXCEPT ![t] = 0]
  /\ next' = [next EXCEPT ![t] = 0]
  /\ packets' = [packets EXCEPT ![t] = <<>>]
  /\ sendMutex' = IF sendMutex = t THEN None ELSE sendMutex
  /\ UNCHANGED <<code, saved, air>>

(* There is nothing to encrypt: the packet has no chunks.                  *)
NoChunks(t) ==
  /\ packets[t] = <<>>
  /\ Finish(t, "read")
  /\ UNCHANGED queue

(* A chunk cannot be encrypted: its code is used up, nothing is sent.      *)
EncryptFails(t) ==
  /\ Len(queue) < MaxQueue
  /\ Finish(t, "save")
  /\ queue' = Append(queue, next[t])

-----------------------------------------------------------------------------
(* Sending.  A telegram that is sent again with its old code does not      *)
(* count: air has the first time only.                                     *)

Transmit(t) ==
  /\ packets[t] # <<>>
  /\ Len(air) < MaxTelegrams
  /\ Goto(t, "send", IF Len(packets[t]) = 1 THEN "sent" ELSE "send")
  /\ air' = Append(air, Head(packets[t]))
  /\ packets' = [packets EXCEPT ![t] = Tail(@)]
  /\ UNCHANGED <<left, seen, next, sendMutex, codeVars>>

SendFails(t) ==
  /\ Goto(t, "send", "failed")
  /\ UNCHANGED <<left, seen, next, packets, sendMutex, codeVars, air>>

(* sendAndReceivePacket sends the same encrypted chunks again.             *)
SendAgain(c) ==
  /\ Goto(c, "failed", "send")
  /\ UNCHANGED <<left, seen, next, packets, sendMutex, codeVars, air>>

(* sendPacket encrypts the packet anew for every resend.                   *)
EncryptAgain(c) == UNCHANGED sendMutex /\ BeginPacket(c, "sent")

Unlock(t) == UNCHANGED queue /\ \E from \in {"failed", "sent"} : Finish(t, from)

-----------------------------------------------------------------------------
StoreSaved ==
  /\ queue # <<>>
  /\ saved' = Head(queue)
  /\ queue' = Tail(queue)
  /\ UNCHANGED <<threadVars, sendMutex, code, air>>

(* Faulty variant: the saved code is continued.                            *)
RestartExactly ==
  /\ queue # <<>> => Head(queue) < saved + Skip
  /\ code' = saved
  /\ queue' = <<saved>>
  /\ pc' = [t \in Thread |-> "idle"]
  /\ left' = [t \in Thread |-> 0]
  /\ seen' = [t \in Thread |-> 0]
  /\ next' = [t \in Thread |-> 0]
  /\ packets' = [t \in Thread |-> <<>>]
  /\ sendMutex' = None
  /\ UNCHANGED <<saved, air>>

(* A crash, and loadVariables.                                             *)
Restart ==
  /\ queue # <<>> => Head(queue) < saved + Skip
  /\ saved + Skip < MaxCode
  /\ code' = saved + Skip
  /\ queue' = <<saved + Skip>>
  /\ pc' = [t \in Thread |-> "idle"]
  /\ left' = [t \in Thread |-> 0]
  /\ seen' = [t \in Thread |-> 0]
  /\ next' = [t \in Thread |-> 0]
  /\ packets' = [t \in Thread |-> <<>>]
  /\ sendMutex' = None
  /\ UNCHANGED <<saved, air>>

-----------------------------------------------------------------------------
EncryptStep(t) ==
  \/ ReadCode(t)
  \/ LoadCode(t)
  \/ StoreCode(t)
  \/ SaveCode(t)
  \/ NoChunks(t)
  \/ EncryptFails(t)

SendStep(t) == Transmit(t) \/ SendFails(t) \/ Unlock(t)

CallerStep(c) ==
  Lock(c) \/ EncryptStep(c) \/ SendStep(c) \/ SendAgain(c) \/ EncryptAgain(c)

WorkerStep(w) == BeginResend(w) \/ EncryptStep(w) \/ SendStep(w)

Next ==
  \/ \E c \in Caller : CallerStep(c)
  \/ StoreSaved
  \/ Restart

(* No command is resent by the worker: RESENDS_WHEN_NO_ACK is 0, or every  *)
(* command with resends is synchronous.                                    *)
Spec == Init /\ [][Next]_vars

ResendSpec == Init /\ [][Next \/ \E w \in Worker : WorkerStep(w)]_vars

-----------------------------------------------------------------------------
(* Correctness.                                                            *)

(* The rolling codes of the telegrams on the air are in order, and none is *)
(* used for two telegrams, whatever fails and however often the program is *)
(* restarted: the device, which ignores a code that is not higher than the *)
(* last, understands every telegram.                                       *)
CodesInOrder == \A i, j \in 1..Len(air) : i < j => air[i] < air[j]
=============================================================================
