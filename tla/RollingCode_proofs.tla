-------------------------- MODULE RollingCode_proofs --------------------------
(***************************************************************************)
(* Proof that the rolling codes go out in order and once each, for any     *)
(* number of threads, chunks, telegrams, failures and restarts, as long as *)
(* the worker resends nothing.  MaxQueue <= Skip is what a restart needs.  *)
(***************************************************************************)
EXTENDS RollingCode, TLAPS

(* _sendPacketMutex is held from the first chunk to the last telegram, and *)
(* the worker stays out.                                                   *)
MutexInv ==
  /\ \A c \in Caller : pc[c] # "idle" <=> sendMutex = c
  /\ \A w \in Worker : pc[w] = "idle"

(* What the holder knows about the code.                                   *)
ChunkInv ==
  \A c \in Caller :
    /\ pc[c] = "idle" => packets[c] = <<>>
    /\ pc[c] \in Encrypting => left[c] > 0
    /\ pc[c] \in {"load", "store"} => seen[c] = code
    /\ pc[c] = "store" => next[c] = code + 1
    /\ pc[c] = "save" => next[c] = code /\ seen[c] + 1 = code

(* The first code that belongs to no encrypted chunk.                      *)
FirstUnused ==
  IF sendMutex # None /\ pc[sendMutex] = "save" THEN code - 1 ELSE code

(* Codes on the air, then those of the encrypted chunks, then unused ones. *)
Increasing(s) == \A i, j \in 1..Len(s) : i < j => s[i] < s[j]
Below(s, n) == \A i \in 1..Len(s) : s[i] < n
Before(s, t) == \A i \in 1..Len(s) : \A j \in 1..Len(t) : s[i] < t[j]

OrderInv ==
  /\ Increasing(air)
  /\ Below(air, FirstUnused)
  /\ \A c \in Caller :
       /\ Increasing(packets[c])
       /\ Below(packets[c], FirstUnused)
       /\ Before(air, packets[c])

(* The writes that are pending lead from the saved code to the current     *)
(* one, without a gap but for the skip of a restart, which comes first.    *)
Consecutive(q) == \A i \in 1..Len(q) : q[i] = q[1] + (i - 1)

Leads(q, from, to) ==
  /\ q = <<>> => from = to
  /\ q # <<>> =>
       /\ q[1] \in {from + 1, from + Skip}
       /\ Consecutive(q)
       /\ to = q[1] + (Len(q) - 1)

QueueInv == Leads(queue, saved, FirstUnused)

IInv == TypeOK /\ MutexInv /\ ChunkInv /\ OrderInv /\ QueueInv

-----------------------------------------------------------------------------
(* Sequences of codes.                                                     *)
LEMMA AppendCode ==
  ASSUME NEW q \in Seq(Nat), NEW n \in Nat
  PROVE  /\ Append(q, n) \in Seq(Nat)
         /\ Len(Append(q, n)) = Len(q) + 1
         /\ \A i \in 1..Len(q) : Append(q, n)[i] = q[i]
         /\ Append(q, n)[Len(q) + 1] = n
  OBVIOUS

LEMMA TailCode ==
  ASSUME NEW q \in Seq(Nat), q # <<>>
  PROVE  /\ Head(q) = q[1]
         /\ q[1] \in Nat
         /\ Len(q) \in Nat \ {0}
         /\ Tail(q) \in Seq(Nat)
         /\ Len(Tail(q)) = Len(q) - 1
         /\ \A i \in 1..Len(Tail(q)) : Tail(q)[i] = q[i + 1]
  OBVIOUS

LEMMA OneCode ==
  /\ <<>> \in Seq(Nat)
  /\ Len(<<>>) = 0
  /\ \A n \in Nat : <<n>> \in Seq(Nat) /\ Len(<<n>>) = 1 /\ <<n>>[1] = n
  OBVIOUS

(* Every variable keeps its type, as the holder never encrypts more        *)
(* chunks than it has.                                                     *)
LEMMA TypeStep == TypeOK /\ ChunkInv /\ MutexInv /\ [Next]_vars => TypeOK'
<1> SUFFICES ASSUME TypeOK, ChunkInv, MutexInv, [Next]_vars
             PROVE  TypeOK'
  OBVIOUS
<1> USE RollingCodeAssumption DEF TypeOK, ChunkInv, Thread, Encrypting,
      threadVars, codeVars
<1>1. ASSUME NEW c \in Caller, Lock(c) PROVE TypeOK'
  BY <1>1, OneCode DEF Lock, BeginPacket, Goto
<1>2. ASSUME NEW c \in Caller, ReadCode(c) PROVE TypeOK'
  BY <1>2 DEF ReadCode, Goto
<1>3. ASSUME NEW c \in Caller, LoadCode(c) PROVE TypeOK'
  BY <1>3 DEF LoadCode, Goto
<1>4. ASSUME NEW c \in Caller, StoreCode(c) PROVE TypeOK'
  BY <1>4 DEF StoreCode, Goto
<1>5. ASSUME NEW c \in Caller, SaveCode(c) PROVE TypeOK'
  <2>1. pc[c] = "save" /\ Len(queue) < MaxQueue /\ left[c] > 0
    BY <1>5 DEF SaveCode, Goto
  <2>2. pc' \in [Thread -> {"idle", "send", "failed", "sent"} \cup Encrypting]
    BY <1>5 DEF SaveCode, Goto
  <2>3. left' \in [Thread -> 0..MaxChunks]
    <3>1. left[c] - 1 \in 0..MaxChunks
      BY <2>1
    <3> QED
      BY <1>5, <3>1 DEF SaveCode
  <2>4. packets' \in [Thread -> Seq(Nat)]
    <3>1. Append(packets[c], seen[c]) \in Seq(Nat)
      BY AppendCode
    <3> QED
      BY <1>5, <3>1 DEF SaveCode
  <2>5. queue' \in Seq(Nat) /\ Len(queue') <= MaxQueue
    BY <1>5, <2>1, AppendCode DEF SaveCode
  <2> QED
    BY <1>5, <2>2, <2>3, <2>4, <2>5 DEF SaveCode
<1>6. ASSUME NEW c \in Caller, NoChunks(c) PROVE TypeOK'
  BY <1>6, OneCode DEF NoChunks, Finish, Goto
<1>7. ASSUME NEW c \in Caller, EncryptFails(c) PROVE TypeOK'
  BY <1>7, AppendCode, OneCode DEF EncryptFails, Finish, Goto
<1>8. ASSUME NEW c \in Caller, Transmit(c) PROVE TypeOK'
  <2>1. packets[c] \in Seq(Nat) /\ packets[c] # <<>>
    BY <1>8 DEF Transmit
  <2>2. Head(packets[c]) \in Nat /\ Tail(packets[c]) \in Seq(Nat)
    BY <2>1, TailCode
  <2>3. air' \in Seq(Nat)
    BY <1>8, <2>2, AppendCode DEF Transmit
  <2>4. packets' \in [Thread -> Seq(Nat)]
    BY <1>8, <2>2 DEF Transmit
  <2>5. pc' \in [Thread -> {"idle", "send", "failed", "sent"} \cup Encrypting]
    BY <1>8 DEF Transmit, Goto
  <2> QED
    BY <1>8, <2>3, <2>4, <2>5 DEF Transmit
<1>9. ASSUME NEW c \in Caller, SendFails(c) PROVE TypeOK'
  BY <1>9 DEF SendFails, Goto
<1>10. ASSUME NEW c \in Caller, Unlock(c) PROVE TypeOK'
  BY <1>10, OneCode DEF Unlock, Finish, Goto
<1>11. ASSUME NEW c \in Caller, SendAgain(c) PROVE TypeOK'
  BY <1>11 DEF SendAgain, Goto
<1>12. ASSUME NEW c \in Caller, EncryptAgain(c) PROVE TypeOK'
  BY <1>12, OneCode DEF EncryptAgain, BeginPacket, Goto
<1>13. CASE StoreSaved
  <2>1. /\ Head(queue) \in Nat
        /\ Tail(queue) \in Seq(Nat)
        /\ Len(Tail(queue)) <= MaxQueue
    BY <1>13, TailCode DEF StoreSaved
  <2> QED
    BY <1>13, <2>1 DEF StoreSaved
<1>14. CASE Restart
  BY <1>14, OneCode DEF Restart
<1>15. CASE UNCHANGED vars
  BY <1>15 DEF vars
<1> QED
  BY <1>1, <1>2, <1>3, <1>4, <1>5, <1>6, <1>7, <1>8, <1>9, <1>10, <1>11,
     <1>12, <1>13, <1>14, <1>15
     DEF Next, CallerStep, EncryptStep, SendStep

(* The mutex is handed from caller to caller, and the worker stays out.    *)
LEMMA MutexStep == TypeOK /\ MutexInv /\ [Next]_vars => MutexInv'
<1> SUFFICES ASSUME TypeOK, MutexInv, [Next]_vars
             PROVE  MutexInv'
  OBVIOUS
<1> USE RollingCodeAssumption DEF TypeOK, MutexInv, Thread, Encrypting,
      threadVars, codeVars
<1>1. ASSUME NEW c \in Caller, Lock(c) PROVE MutexInv'
  BY <1>1 DEF Lock, BeginPacket, Goto
<1>2. ASSUME NEW c \in Caller, ReadCode(c) PROVE MutexInv'
  BY <1>2 DEF ReadCode, Goto
<1>3. ASSUME NEW c \in Caller, LoadCode(c) PROVE MutexInv'
  BY <1>3 DEF LoadCode, Goto
<1>4. ASSUME NEW c \in Caller, StoreCode(c) PROVE MutexInv'
  BY <1>4 DEF StoreCode, Goto
<1>5. ASSUME NEW c \in Caller, SaveCode(c) PROVE MutexInv'
  BY <1>5 DEF SaveCode, Goto
<1>6. ASSUME NEW c \in Caller, NoChunks(c) PROVE MutexInv'
  BY <1>6 DEF NoChunks, Finish, Goto
<1>7. ASSUME NEW c \in Caller, EncryptFails(c) PROVE MutexInv'
  BY <1>7 DEF EncryptFails, Finish, Goto
<1>8. ASSUME NEW c \in Caller, Transmit(c) PROVE MutexInv'
  BY <1>8 DEF Transmit, Goto
<1>9. ASSUME NEW c \in Caller, SendFails(c) PROVE MutexInv'
  BY <1>9 DEF SendFails, Goto
<1>10. ASSUME NEW c \in Caller, Unlock(c) PROVE MutexInv'
  BY <1>10 DEF Unlock, Finish, Goto
<1>11. ASSUME NEW c \in Caller, SendAgain(c) PROVE MutexInv'
  BY <1>11 DEF SendAgain, Goto
<1>12. ASSUME NEW c \in Caller, EncryptAgain(c) PROVE MutexInv'
  BY <1>12 DEF EncryptAgain, BeginPacket, Goto
<1>13. CASE StoreSaved
  BY <1>13 DEF StoreSaved
<1>14. CASE Restart
  BY <1>14 DEF Restart
<1>15. CASE UNCHANGED vars
  BY <1>15 DEF vars
<1> QED
  BY <1>1, <1>2, <1>3, <1>4, <1>5, <1>6, <1>7, <1>8, <1>9, <1>10, <1>11,
     <1>12, <1>13, <1>14, <1>15
     DEF Next, CallerStep, EncryptStep, SendStep

(* What the holder has read stays true until it has stored it.             *)
LEMMA ChunkStep == TypeOK /\ MutexInv /\ ChunkInv /\ [Next]_vars => ChunkInv'
<1> SUFFICES ASSUME TypeOK, MutexInv, ChunkInv, [Next]_vars
             PROVE  ChunkInv'
  OBVIOUS
<1> USE RollingCodeAssumption DEF TypeOK, MutexInv, ChunkInv, Thread,
      Encrypting, threadVars, codeVars
<1>1. ASSUME NEW c \in Caller, Lock(c) PROVE ChunkInv'
  BY <1>1 DEF Lock, BeginPacket, Goto
<1>2. ASSUME NEW c \in Caller, ReadCode(c) PROVE ChunkInv'
  BY <1>2 DEF ReadCode, Goto
<1>3. ASSUME NEW c \in Caller, LoadCode(c) PROVE ChunkInv'
  BY <1>3 DEF LoadCode, Goto
<1>4. ASSUME NEW c \in Caller, StoreCode(c) PROVE ChunkInv'
  BY <1>4 DEF StoreCode, Goto
<1>5. ASSUME NEW c \in Caller, SaveCode(c) PROVE ChunkInv'
  BY <1>5 DEF SaveCode, Goto
<1>6. ASSUME NEW c \in Caller, NoChunks(c) PROVE ChunkInv'
  BY <1>6 DEF NoChunks, Finish, Goto
<1>7. ASSUME NEW c \in Caller, EncryptFails(c) PROVE ChunkInv'
  BY <1>7 DEF EncryptFails, Finish, Goto
<1>8. ASSUME NEW c \in Caller, Transmit(c) PROVE ChunkInv'
  BY <1>8 DEF Transmit, Goto
<1>9. ASSUME NEW c \in Caller, SendFails(c) PROVE ChunkInv'
  BY <1>9 DEF SendFails, Goto
<1>10. ASSUME NEW c \in Caller, Unlock(c) PROVE ChunkInv'
  BY <1>10 DEF Unlock, Finish, Goto
<1>11. ASSUME NEW c \in Caller, SendAgain(c) PROVE ChunkInv'
  BY <1>11 DEF SendAgain, Goto
<1>12. ASSUME NEW c \in Caller, EncryptAgain(c) PROVE ChunkInv'
  BY <1>12 DEF EncryptAgain, BeginPacket, Goto
<1>13. CASE StoreSaved
  BY <1>13 DEF StoreSaved
<1>14. CASE Restart
  BY <1>14 DEF Restart
<1>15. CASE UNCHANGED vars
  BY <1>15 DEF vars
<1> QED
  BY <1>1, <1>2, <1>3, <1>4, <1>5, <1>6, <1>7, <1>8, <1>9, <1>10, <1>11,
     <1>12, <1>13, <1>14, <1>15
     DEF Next, CallerStep, EncryptStep, SendStep

-----------------------------------------------------------------------------
(* How sequences of codes stay in order.                                   *)
LEMMA EmptyOrder ==
  ASSUME NEW n \in Nat, NEW t \in Seq(Nat)
  PROVE  Increasing(<<>>) /\ Below(<<>>, n) /\ Before(t, <<>>)
  BY OneCode DEF Increasing, Below, Before

LEMMA BelowMore ==
  ASSUME NEW s \in Seq(Nat), NEW n \in Nat, NEW m \in Nat, n <= m, Below(s, n)
  PROVE  Below(s, m)
  BY DEF Below

LEMMA AppendOrder ==
  ASSUME NEW s \in Seq(Nat), NEW n \in Nat, Increasing(s), Below(s, n)
  PROVE  Increasing(Append(s, n)) /\ Below(Append(s, n), n + 1)
<1> DEFINE r == Append(s, n)
<1>1. /\ Len(s) \in Nat /\ Len(r) = Len(s) + 1 /\ r[Len(s) + 1] = n
      /\ \A i \in 1..Len(s) : r[i] = s[i] /\ s[i] \in Nat
  BY AppendCode
<1> HIDE DEF r
<1>2. ASSUME NEW i \in 1..Len(r), NEW j \in 1..Len(r), i < j PROVE r[i] < r[j]
  <2>1. i \in 1..Len(s)
    BY <1>1, <1>2
  <2>2. CASE j \in 1..Len(s)
    BY <1>1, <1>2, <2>1, <2>2 DEF Increasing
  <2>3. CASE j = Len(s) + 1
    BY <1>1, <2>1, <2>3 DEF Below
  <2> QED
    BY <1>1, <2>2, <2>3
<1>3. Below(r, n + 1)
  BY <1>1 DEF Below
<1> QED
  BY <1>2, <1>3 DEF r, Increasing

LEMMA AppendBefore ==
  ASSUME NEW t \in Seq(Nat), NEW s \in Seq(Nat), NEW n \in Nat,
         Before(t, s), Below(t, n)
  PROVE  Before(t, Append(s, n))
<1> DEFINE r == Append(s, n)
<1>1. /\ Len(s) \in Nat /\ Len(r) = Len(s) + 1 /\ r[Len(s) + 1] = n
      /\ \A i \in 1..Len(s) : r[i] = s[i]
  BY AppendCode
<1> HIDE DEF r
<1>2. ASSUME NEW i \in 1..Len(t), NEW j \in 1..Len(r) PROVE t[i] < r[j]
  <2>1. CASE j \in 1..Len(s)
    BY <1>1, <2>1 DEF Before
  <2>2. CASE j = Len(s) + 1
    BY <1>1, <2>2 DEF Below
  <2> QED
    BY <1>1, <2>1, <2>2
<1> QED
  BY <1>2 DEF r, Before

(* The first code of s moves to the end of t.                              *)
LEMMA MoveOrder ==
  ASSUME NEW t \in Seq(Nat), NEW s \in Seq(Nat), NEW n \in Nat, s # <<>>,
         Increasing(t), Increasing(s), Before(t, s), Below(t, n), Below(s, n)
  PROVE  /\ Increasing(Append(t, Head(s))) /\ Increasing(Tail(s))
         /\ Below(Append(t, Head(s)), n) /\ Below(Tail(s), n)
         /\ Before(Append(t, Head(s)), Tail(s))
<1>1. Head(s) = s[1] /\ s[1] \in Nat /\ 1 \in 1..Len(s)
  BY TailCode
<1>2. \A i \in 1..Len(Tail(s)) : i + 1 \in 1..Len(s) /\ Tail(s)[i] = s[i + 1]
  BY TailCode
<1>3. Below(t, s[1])
  BY <1>1 DEF Before, Below
<1>4. Increasing(Append(t, Head(s))) /\ Below(Append(t, Head(s)), s[1] + 1)
  BY <1>1, <1>3, AppendOrder
<1>5. Below(Append(t, Head(s)), n)
  BY <1>1, AppendCode DEF Below
<1>6. Increasing(Tail(s)) /\ Below(Tail(s), n)
  BY <1>2, TailCode DEF Increasing, Below
<1>7. \A j \in 1..Len(Tail(s)) : s[1] < Tail(s)[j]
  BY <1>1, <1>2, TailCode DEF Increasing
<1>8. Before(Append(t, Head(s)), Tail(s))
  BY <1>1, <1>2, <1>7, AppendCode, TailCode DEF Before
<1> QED
  BY <1>4, <1>5, <1>6, <1>8

-----------------------------------------------------------------------------
(* Where the first unused code is.                                         *)
LEMMA UnusedTyping == TypeOK /\ MutexInv /\ ChunkInv => FirstUnused \in Nat
  BY RollingCodeAssumption
     DEF TypeOK, MutexInv, ChunkInv, FirstUnused, Thread, Encrypting

LEMMA UnusedStore ==
  ASSUME TypeOK, MutexInv, ChunkInv, NEW c \in Caller, StoreCode(c)
  PROVE  FirstUnused' = FirstUnused
<1>1. sendMutex = c /\ sendMutex' = c /\ c # None /\ pc[c] = "store" /\ pc'[c] = "save"
  BY RollingCodeAssumption DEF StoreCode, Goto, MutexInv, TypeOK, Thread
<1>2. code' = code + 1 /\ code \in Nat
  BY <1>1 DEF StoreCode, ChunkInv, TypeOK
<1> QED
  BY <1>1, <1>2 DEF FirstUnused

LEMMA UnusedSave ==
  ASSUME TypeOK, MutexInv, ChunkInv, NEW c \in Caller, SaveCode(c) \/ EncryptFails(c)
  PROVE  /\ sendMutex = c
         /\ seen[c] = FirstUnused
         /\ next[c] = FirstUnused'
         /\ FirstUnused' = FirstUnused + 1
<1>1. sendMutex = c /\ sendMutex' \in {c, None} /\ c # None
  BY RollingCodeAssumption DEF SaveCode, EncryptFails, Finish, Goto, MutexInv
<1>2. pc[c] = "save" /\ pc'[c] # "save" /\ code' = code
  BY DEF SaveCode, EncryptFails, Finish, Goto, TypeOK, Thread
<1>3. next[c] = code /\ seen[c] + 1 = code /\ code \in Nat /\ seen[c] \in Nat
  BY <1>2 DEF ChunkInv, TypeOK, Thread, Encrypting
<1> QED
  BY <1>1, <1>2, <1>3 DEF FirstUnused

LEMMA UnusedKept ==
  ASSUME TypeOK, MutexInv, NEW c \in Caller,
         \/ Lock(c) \/ ReadCode(c) \/ LoadCode(c) \/ NoChunks(c) \/ Transmit(c)
         \/ SendFails(c) \/ Unlock(c) \/ SendAgain(c) \/ EncryptAgain(c)
  PROVE  FirstUnused' = FirstUnused
<1>1. pc'[c] # "save" /\ pc[c] # "save" /\ code' = code
  BY DEF Lock, ReadCode, LoadCode, NoChunks, Transmit, SendFails, Unlock,
         SendAgain, EncryptAgain, BeginPacket, Finish, Goto, TypeOK, Thread, codeVars
<1>2. sendMutex \in {c, None} /\ sendMutex' \in {c, None}
  BY DEF Lock, ReadCode, LoadCode, NoChunks, Transmit, SendFails, Unlock,
         SendAgain, EncryptAgain, BeginPacket, Finish, Goto, MutexInv
<1> QED
  BY <1>1, <1>2 DEF FirstUnused

(* The skip is at least as wide as the pending writes.                     *)
LEMMA SkipSuffices ==
  ASSUME TypeOK, QueueInv, queue # <<>> => Head(queue) < saved + Skip
  PROVE  FirstUnused <= saved + Skip
<1> USE RollingCodeAssumption
<1>1. CASE queue = <<>>
  BY <1>1 DEF QueueInv, Leads, Consecutive, TypeOK
<1>2. CASE queue # <<>>
  <2>1. Head(queue) = queue[1] /\ Len(queue) \in Nat
    BY <1>2, TailCode DEF TypeOK
  <2>2. queue[1] = saved + 1
    BY <1>2, <2>1 DEF QueueInv, Leads, Consecutive, TypeOK
  <2> QED
    BY <1>2, <2>1, <2>2 DEF QueueInv, Leads, Consecutive, TypeOK
<1> QED
  BY <1>1, <1>2

-----------------------------------------------------------------------------
(* Codes are used in the order in which they are handed out.               *)
LEMMA OrderStep ==
  TypeOK /\ MutexInv /\ ChunkInv /\ OrderInv /\ QueueInv /\ [Next]_vars => OrderInv'
<1> SUFFICES ASSUME TypeOK, MutexInv, ChunkInv, OrderInv, QueueInv, [Next]_vars
             PROVE  OrderInv'
  OBVIOUS
<1> USE RollingCodeAssumption
<1>1. FirstUnused \in Nat /\ air \in Seq(Nat) /\ \A c \in Caller : packets[c] \in Seq(Nat)
  BY UnusedTyping DEF TypeOK, Thread
<1>2. ASSUME NEW c \in Caller, sendMutex = c
      PROVE  \A d \in Caller : d # c => packets[d] = <<>>
  BY <1>2 DEF MutexInv, ChunkInv
<1>3. ASSUME NEW c \in Caller,
             \/ Lock(c) \/ NoChunks(c) \/ Unlock(c) \/ EncryptAgain(c)
      PROVE  OrderInv'
  <2>1. air' = air /\ FirstUnused' = FirstUnused
    BY <1>3, UnusedKept DEF Lock, NoChunks, Unlock, EncryptAgain, BeginPacket, Finish
  <2>2. \A d \in Caller : packets'[d] \in {packets[d], <<>>}
    BY <1>3 DEF Lock, NoChunks, Unlock, EncryptAgain, BeginPacket, Finish, TypeOK, Thread
  <2> QED
    BY <1>1, <2>1, <2>2, EmptyOrder DEF OrderInv
<1>4. ASSUME NEW c \in Caller,
             ReadCode(c) \/ LoadCode(c) \/ StoreCode(c) \/ SendFails(c) \/ SendAgain(c)
      PROVE  OrderInv'
  <2>1. FirstUnused' = FirstUnused
    BY <1>4, UnusedKept, UnusedStore
  <2>2. UNCHANGED <<air, packets>>
    BY <1>4 DEF ReadCode, LoadCode, StoreCode, SendFails, SendAgain
  <2> QED
    BY <2>1, <2>2 DEF OrderInv
<1>5. ASSUME NEW c \in Caller, SaveCode(c) PROVE OrderInv'
  <2>1. seen[c] = FirstUnused /\ FirstUnused' = FirstUnused + 1 /\ sendMutex = c
    BY <1>5, UnusedSave
  <2>2. packets'[c] = Append(packets[c], FirstUnused) /\ air' = air
    BY <1>5, <2>1 DEF SaveCode, TypeOK, Thread
  <2>3. \A d \in Caller : d # c => packets'[d] = <<>>
    BY <1>2, <1>5, <2>1 DEF SaveCode
  <2>4. Below(air, FirstUnused') /\ Increasing(air)
    BY <1>1, <2>1, BelowMore DEF OrderInv
  <2>5. Increasing(packets'[c]) /\ Below(packets'[c], FirstUnused')
    BY <1>1, <2>1, <2>2, AppendOrder DEF OrderInv
  <2>6. Before(air, packets'[c])
    BY <1>1, <2>2, AppendBefore DEF OrderInv
  <2>7. FirstUnused' \in Nat
    BY <1>1, <2>1
  <2> QED
    BY <1>1, <2>2, <2>3, <2>4, <2>5, <2>6, <2>7, EmptyOrder DEF OrderInv
<1>6. ASSUME NEW c \in Caller, EncryptFails(c) PROVE OrderInv'
  <2>1. FirstUnused' = FirstUnused + 1 /\ air' = air
    BY <1>6, UnusedSave DEF EncryptFails, Finish
  <2>2. \A d \in Caller : packets'[d] \in {packets[d], <<>>}
    BY <1>6 DEF EncryptFails, Finish, TypeOK, Thread
  <2>3. FirstUnused' \in Nat /\ FirstUnused <= FirstUnused'
    BY <1>1, <2>1
  <2>4. Increasing(air') /\ Below(air', FirstUnused')
    BY <1>1, <2>1, <2>3, BelowMore DEF OrderInv
  <2>5. ASSUME NEW d \in Caller
        PROVE  /\ Increasing(packets'[d]) /\ Below(packets'[d], FirstUnused')
               /\ Before(air', packets'[d])
    <3>1. CASE packets'[d] = packets[d]
      BY <1>1, <2>1, <2>3, <3>1, BelowMore DEF OrderInv
    <3>2. CASE packets'[d] = <<>>
      BY <1>1, <2>1, <2>3, <3>2, EmptyOrder
    <3> QED
      BY <2>2, <3>1, <3>2
  <2> QED
    BY <2>4, <2>5 DEF OrderInv
<1>7. ASSUME NEW c \in Caller, Transmit(c) PROVE OrderInv'
  <2>1. sendMutex = c /\ FirstUnused' = FirstUnused /\ packets[c] # <<>>
    BY <1>7, UnusedKept DEF Transmit, Goto, MutexInv
  <2>2. air' = Append(air, Head(packets[c])) /\ packets'[c] = Tail(packets[c])
    BY <1>7 DEF Transmit, TypeOK, Thread
  <2>3. \A d \in Caller : d # c => packets'[d] = <<>>
    BY <1>2, <1>7, <2>1 DEF Transmit
  <2>4. /\ Increasing(air') /\ Increasing(packets'[c])
        /\ Below(air', FirstUnused) /\ Below(packets'[c], FirstUnused)
        /\ Before(air', packets'[c])
    BY <1>1, <2>1, <2>2, MoveOrder DEF OrderInv
  <2>5. air' \in Seq(Nat)
    BY <1>1, <2>1, <2>2, AppendCode, TailCode
  <2> QED
    BY <1>1, <2>1, <2>3, <2>4, <2>5, EmptyOrder DEF OrderInv
<1>8. CASE StoreSaved
  BY <1>8 DEF StoreSaved, OrderInv, FirstUnused, threadVars
<1>9. CASE Restart
  <2>1. FirstUnused <= saved + Skip /\ FirstUnused' = saved + Skip
    BY <1>9, SkipSuffices DEF Restart, FirstUnused
  <2>2. air' = air /\ \A c \in Caller : packets'[c] = <<>>
    BY <1>9 DEF Restart, Thread
  <2>3. FirstUnused' \in Nat
    BY <2>1 DEF TypeOK
  <2>4. Increasing(air') /\ Below(air', FirstUnused')
    BY <1>1, <2>1, <2>2, <2>3, BelowMore DEF OrderInv
  <2> QED
    BY <1>1, <2>2, <2>3, <2>4, EmptyOrder DEF OrderInv
<1>10. CASE UNCHANGED vars
  BY <1>10 DEF vars, OrderInv, FirstUnused, threadVars, codeVars
<1> QED
  BY <1>3, <1>4, <1>5, <1>6, <1>7, <1>8, <1>9, <1>10
     DEF Next, CallerStep, EncryptStep, SendStep

-----------------------------------------------------------------------------
(* The pending writes stay in step with the code.                          *)
LEMMA ConsecutiveAppend ==
  ASSUME NEW q \in Seq(Nat), q # <<>>, Consecutive(q)
  PROVE  /\ Append(q, q[1] + Len(q))[1] = q[1]
         /\ Consecutive(Append(q, q[1] + Len(q)))
<1> DEFINE r == Append(q, q[1] + Len(q))
<1>1. Len(q) \in Nat \ {0} /\ q[1] \in Nat /\ q[1] + Len(q) \in Nat
  BY TailCode
<1>2. /\ Len(r) = Len(q) + 1
      /\ \A i \in 1..Len(q) : r[i] = q[i]
      /\ r[Len(q) + 1] = q[1] + Len(q)
  BY <1>1, AppendCode
<1> HIDE DEF r
<1>3. r[1] = q[1]
  BY <1>1, <1>2
<1>4. ASSUME NEW i \in 1..Len(r) PROVE r[i] = r[1] + (i - 1)
  <2>1. CASE i \in 1..Len(q)
    BY <1>2, <1>3, <2>1 DEF Consecutive
  <2>2. CASE i = Len(q) + 1
    BY <1>1, <1>2, <1>3, <2>2
  <2> QED
    BY <1>1, <1>2, <2>1, <2>2
<1> QED
  BY <1>3, <1>4 DEF r, Consecutive

LEMMA LeadsAppend ==
  ASSUME NEW q \in Seq(Nat), NEW from \in Nat, NEW to \in Nat, Leads(q, from, to)
  PROVE  Leads(Append(q, to + 1), from, to + 1)
<1>1. CASE q = <<>>
  <2>1. /\ Append(q, to + 1) # <<>>
        /\ Len(Append(q, to + 1)) = 1
        /\ Append(q, to + 1)[1] = to + 1
    BY <1>1
  <2> QED
    BY <1>1, <2>1 DEF Leads, Consecutive
<1>2. CASE q # <<>>
  <2>1. Len(q) \in Nat \ {0} /\ q[1] \in Nat
    BY <1>2, TailCode
  <2>2. q[1] \in {from + 1, from + Skip} /\ Consecutive(q) /\ to + 1 = q[1] + Len(q)
    BY <1>2, <2>1 DEF Leads
  <2>3. /\ Append(q, to + 1)[1] = q[1]
        /\ Consecutive(Append(q, to + 1))
    BY <1>2, <2>2, ConsecutiveAppend
  <2>4. Append(q, to + 1) # <<>> /\ Len(Append(q, to + 1)) = Len(q) + 1
    BY AppendCode
  <2> QED
    BY <2>1, <2>2, <2>3, <2>4 DEF Leads
<1> QED
  BY <1>1, <1>2

LEMMA LeadsTail ==
  ASSUME NEW q \in Seq(Nat), q # <<>>, NEW from \in Nat, NEW to \in Nat,
         Leads(q, from, to)
  PROVE  Leads(Tail(q), q[1], to)
<1> DEFINE r == Tail(q)
<1>1. /\ Len(q) \in Nat \ {0} /\ q[1] \in Nat
      /\ r \in Seq(Nat) /\ Len(r) = Len(q) - 1
      /\ \A i \in 1..Len(r) : r[i] = q[i + 1]
  BY TailCode
<1>2. /\ \A i \in 1..Len(q) : q[i] = q[1] + (i - 1)
      /\ to = q[1] + (Len(q) - 1)
  BY DEF Leads, Consecutive
<1> HIDE DEF r
<1>3. r = <<>> <=> Len(r) = 0
  <2>1. r \in Seq(Nat)
    BY <1>1
  <2> QED
    BY <2>1
<1>4. \A i \in 1..Len(r) : r[i] = q[1] + i
  <2> TAKE i \in 1..Len(r)
  <2>1. i + 1 \in 1..Len(q)
    BY <1>1
  <2>2. q[i + 1] = q[1] + ((i + 1) - 1)
    BY <1>2, <2>1
  <2> QED
    BY <1>1, <2>2
<1>5. CASE r = <<>>
  BY <1>1, <1>2, <1>3, <1>5 DEF Leads, r
<1>6. CASE r # <<>>
  <2>1. 1 \in 1..Len(r) /\ r[1] = q[1] + 1
    BY <1>1, <1>3, <1>4, <1>6
  <2>2. Consecutive(r)
    BY <1>1, <1>4, <2>1 DEF Consecutive
  <2>3. to = r[1] + (Len(r) - 1)
    BY <1>1, <1>2, <2>1
  <2> QED
    BY <1>6, <2>1, <2>2, <2>3 DEF Leads, r
<1> QED
  BY <1>5, <1>6

LEMMA QueueStep ==
  TypeOK /\ MutexInv /\ ChunkInv /\ QueueInv /\ [Next]_vars => QueueInv'
<1> SUFFICES ASSUME TypeOK, MutexInv, ChunkInv, QueueInv, [Next]_vars
             PROVE  QueueInv'
  OBVIOUS
<1> USE RollingCodeAssumption
<1>1. ASSUME NEW c \in Caller,
             \/ Lock(c) \/ ReadCode(c) \/ LoadCode(c) \/ StoreCode(c) \/ NoChunks(c)
             \/ Transmit(c) \/ SendFails(c) \/ Unlock(c) \/ SendAgain(c) \/ EncryptAgain(c)
      PROVE  QueueInv'
  <2>1. FirstUnused' = FirstUnused
    BY <1>1, UnusedKept, UnusedStore
  <2>2. UNCHANGED <<queue, saved>>
    BY <1>1 DEF Lock, ReadCode, LoadCode, StoreCode, NoChunks, Transmit, SendFails,
         Unlock, SendAgain, EncryptAgain, BeginPacket, Finish, codeVars
  <2> QED
    BY <2>1, <2>2 DEF QueueInv
<1>2. ASSUME NEW c \in Caller, SaveCode(c) \/ EncryptFails(c) PROVE QueueInv'
  <2>1. FirstUnused' = FirstUnused + 1 /\ next[c] = FirstUnused + 1 /\ FirstUnused \in Nat
    BY <1>2, UnusedSave, UnusedTyping
  <2>2. queue' = Append(queue, FirstUnused + 1) /\ saved' = saved
    BY <1>2, <2>1 DEF SaveCode, EncryptFails, Finish
  <2> QED
    BY <2>1, <2>2, LeadsAppend DEF TypeOK, QueueInv
<1>3. CASE StoreSaved
  <2>1. queue # <<>> /\ queue \in Seq(Nat) /\ FirstUnused' = FirstUnused
    BY <1>3 DEF StoreSaved, FirstUnused, threadVars, TypeOK
  <2>2. saved' = queue[1] /\ queue' = Tail(queue)
    BY <1>3, <2>1, TailCode DEF StoreSaved
  <2>3. saved \in Nat /\ FirstUnused \in Nat
    BY UnusedTyping DEF TypeOK
  <2> QED
    BY <2>1, <2>2, <2>3, LeadsTail DEF QueueInv
<1>4. CASE Restart
  <2>1. queue' = <<saved + Skip>> /\ saved' = saved /\ saved + Skip \in Nat
    BY <1>4 DEF Restart, TypeOK
  <2>2. FirstUnused' = saved + Skip
    BY <1>4 DEF Restart, FirstUnused
  <2> QED
    BY <2>1, <2>2, OneCode DEF QueueInv, Leads, Consecutive
<1>5. CASE UNCHANGED vars
  BY <1>5 DEF vars, QueueInv, FirstUnused, threadVars, codeVars
<1> QED
  BY <1>1, <1>2, <1>3, <1>4, <1>5 DEF Next, CallerStep, EncryptStep, SendStep

-----------------------------------------------------------------------------
(* The inductive invariant holds at the start, and every step keeps it.    *)
LEMMA InitIInv == Init => IInv
  BY RollingCodeAssumption, OneCode
     DEF Init, IInv, TypeOK, MutexInv, ChunkInv, OrderInv, QueueInv, Leads,
         FirstUnused, Increasing, Below, Before, Thread, Encrypting

LEMMA NextIInv == IInv /\ [Next]_vars => IInv'
  BY TypeStep, MutexStep, ChunkStep, OrderStep, QueueStep DEF IInv

(* Codes are used in order at every step of every caller, and the chain of *)
(* pending writes has no gap, in every state the program can be in.        *)
THEOREM Invariance == Spec => []IInv
  BY InitIInv, NextIInv, PTL DEF Spec

(* Every variable keeps its type, and the queue its bound.                 *)
THEOREM TypeInvariant == Spec => []TypeOK
  BY Invariance, PTL DEF IInv

(* Rolling codes are sent in order, and none twice, over any number of     *)
(* commands, failures and restarts.                                        *)
THEOREM Ordered == Spec => []CodesInOrder
<1>1. IInv => CodesInOrder
  BY DEF IInv, OrderInv, Increasing, CodesInOrder
<1> QED
  BY <1>1, Invariance, PTL
=============================================================================
