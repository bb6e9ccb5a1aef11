------------------------- MODULE RadioExchange_proofs -------------------------
(***************************************************************************)
(* Proofs about sendAndReceivePacket and checkForEnOceanRequest, for any   *)
(* number of threads, devices, functions, chunks, retries and frames: the  *)
(* types, that the request table is exact on every path, and that a call   *)
(* returns only telegrams it asked for.                                    *)
(***************************************************************************)
EXTENDS RadioExchange, TLAPS

(* The command of the channel is that of the thread that sends, which has  *)
(* a chunk left to send.                                                   *)
ChannelInv ==
  /\ \A c \in Caller : pc[c] = "sending" <=> owner = c
  /\ \A c \in Caller : pc[c] \in {"send", "sending"} => toSend[c] > 0

(* A thread that does not call has no answer.                              *)
CallInv ==
  \A c \in Caller : pc[c] = "idle" => response[c] = None /\ result[c] = None

(* The listen thread has a request and a telegram exactly while it         *)
(* delivers; the request is that of a running call, or an orphan.          *)
ListenInv ==
  /\ lpc = "idle" <=> held = None
  /\ lpc # "idle" => telegram \in Telegram
  /\ held \in Caller => pc[held] # "idle"

(* Wherever a telegram is on its way to a call, the call asked for it.     *)
AnswerInv ==
  /\ held \in Caller => Matches(held, telegram)
  /\ \A c \in Caller :
       /\ response[c] \in Telegram => Matches(c, response[c])
       /\ result[c] \in Telegram => Matches(c, result[c])

IInv ==
  TypeOK /\ RegistryExact /\ ChannelInv /\ CallInv /\ ListenInv /\ AnswerInv

-----------------------------------------------------------------------------
(* The frames on the line.                                                 *)
LEMMA EmptyLine == <<>> \in Seq(Telegram \cup {Ack})
  OBVIOUS

LEMMA LineTyping ==
  ASSUME NEW s \in Seq(Telegram \cup {Ack}), s # <<>>
  PROVE  /\ Head(s) \in Telegram \cup {Ack}
         /\ Tail(s) \in Seq(Telegram \cup {Ack})
  OBVIOUS

LEMMA LineGrows ==
  ASSUME NEW s \in Seq(Telegram \cup {Ack}), NEW f \in Telegram \cup {Ack}
  PROVE  Append(s, f) \in Seq(Telegram \cup {Ack})
  OBVIOUS

(* The types need ChannelInv: a chunk that is accepted was left to send.     *)
LEMMA TypeStep ==
  TypeOK /\ ChannelInv /\ ListenInv /\ [Next]_vars => TypeOK'
<1> SUFFICES ASSUME TypeOK, ChannelInv, ListenInv, [Next]_vars
             PROVE  TypeOK'
  OBVIOUS
<1> USE RadioAssumption, ChannelAssumption DEF TypeOK, ChannelTypeOK,
   Active, HoldsRequest, ChannelInv, ListenInv, Phase, channelVars,
   callVars, requestVars, listenVars
<1>1. ASSUME NEW c \in Caller, NEW w \in Filter, Call(c, w) PROVE TypeOK'
  BY <1>1 DEF Call, Goto
<1>2. ASSUME NEW c \in Caller, LockRequest(c) PROVE TypeOK'
  BY <1>2 DEF LockRequest, StartAttempt, Goto
<1>3. ASSUME NEW c \in Caller, BeginChunk(c) PROVE TypeOK'
  BY <1>3 DEF BeginChunk, Begin, Goto
<1>4. ASSUME NEW c \in Caller, TransmitChunk(c) PROVE TypeOK'
  <2>1. line' \in Seq(Telegram \cup {Ack})
    <3>1. line' \in {line, Append(line, Ack)}
      BY <1>4 DEF TransmitChunk, Transmit
    <3>2. line \in Seq(Telegram \cup {Ack}) /\ Ack \in Telegram \cup {Ack}
      OBVIOUS
    <3>3. Append(line, Ack) \in Seq(Telegram \cup {Ack})
      BY <3>2, LineGrows
    <3> QED
      BY <3>1, <3>2, <3>3
  <2>2. phase' \in Phase /\ UNCHANGED <<owner, answered>>
    BY <1>4 DEF TransmitChunk, Transmit
  <2>3. UNCHANGED <<callVars, requestVars, listenVars>>
    BY <1>4 DEF TransmitChunk
  <2> QED
    BY <2>1, <2>2, <2>3
<1>5. ASSUME NEW c \in Caller, ChunkAccepted(c) PROVE TypeOK'
  <2>1. pc[c] = "sending" /\ toSend[c] \in Nat \ {0}
    BY <1>5 DEF ChunkAccepted, Goto
  <2>2. toSend' \in [Caller -> Nat]
    BY <1>5, <2>1 DEF ChunkAccepted
  <2>3. pc' \in [Caller -> {"idle"} \cup Active \cup HoldsRequest]
    BY <1>5, <2>1 DEF ChunkAccepted, Goto
  <2>4. ChannelTypeOK'
    BY <1>5 DEF ChunkAccepted, End
  <2> QED
    BY <1>5, <2>2, <2>3, <2>4 DEF ChunkAccepted
<1>6. ASSUME NEW c \in Caller, ChunkFailed(c) PROVE TypeOK'
  BY <1>6 DEF ChunkFailed, End, Goto
<1>7. ASSUME NEW c \in Caller, SendRefused(c) PROVE TypeOK'
  BY <1>7 DEF SendRefused, Goto
<1>8. ASSUME NEW c \in Caller, GiveUp(c) PROVE TypeOK'
  BY <1>8 DEF GiveUp, Goto
<1>9. ASSUME NEW c \in Caller, Wake(c) PROVE TypeOK'
  BY <1>9 DEF Wake, EndWait, Goto
<1>10. ASSUME NEW c \in Caller, Expire(c) PROVE TypeOK'
  BY <1>10 DEF Expire, EndWait, Goto
<1>11. ASSUME NEW c \in Caller, Retry(c) PROVE TypeOK'
  BY <1>11 DEF Retry, StartAttempt, Goto
<1>12. ASSUME NEW c \in Caller, EndAttempts(c) PROVE TypeOK'
  BY <1>12 DEF EndAttempts, Goto
<1>13. ASSUME NEW c \in Caller, Unregister(c) PROVE TypeOK'
  BY <1>13 DEF Unregister, Goto
<1>14. ASSUME NEW c \in Caller, ReadResponse(c) PROVE TypeOK'
  BY <1>14 DEF ReadResponse, Goto
<1>15. ASSUME NEW c \in Caller, Return(c) PROVE TypeOK'
  BY <1>15 DEF Return, Goto
<1>16. CASE HandleAck
  BY <1>16, LineTyping DEF HandleAck, Deliver
<1>17. CASE FindRequest
  BY <1>17, LineTyping DEF FindRequest
<1>18. CASE WriteBegin
  BY <1>18 DEF WriteBegin, SetResponse
<1>19. CASE WriteEnd
  BY <1>19 DEF WriteEnd, SetResponse
<1>20. CASE SetReady
  BY <1>20 DEF SetReady
<1>21. CASE LoseFrames
  BY <1>21, LineTyping, EmptyLine DEF LoseFrames, Lose, Discard
<1>22. ASSUME NEW t \in Telegram, DeviceSends(t) PROVE TypeOK'
  BY <1>22, LineGrows DEF DeviceSends
<1>23. CASE UNCHANGED vars
  BY <1>23 DEF vars
<1> QED
  BY <1>1, <1>2, <1>3, <1>4, <1>5, <1>6, <1>7, <1>8, <1>9, <1>10, <1>11,
     <1>12, <1>13, <1>14, <1>15, <1>16, <1>17, <1>18, <1>19, <1>20, <1>21,
     <1>22, <1>23 DEF Next, CallStep, SendStep, CheckStep, DeliverStep

(* The request is removed on every path out of the call.                   *)
LEMMA RegistryStep ==
  TypeOK /\ RegistryExact /\ [Next]_vars => RegistryExact'
<1> SUFFICES ASSUME TypeOK, RegistryExact, [Next]_vars
             PROVE  RegistryExact'
  OBVIOUS
<1> USE RadioAssumption, ChannelAssumption DEF TypeOK, ChannelTypeOK,
   Active, HoldsRequest, RegistryExact, channelVars, callVars, requestVars,
   listenVars
<1>1. ASSUME NEW c \in Caller, NEW w \in Filter, Call(c, w) PROVE RegistryExact'
  BY <1>1 DEF Call, Goto
<1>2. ASSUME NEW c \in Caller, LockRequest(c) PROVE RegistryExact'
  BY <1>2 DEF LockRequest, StartAttempt, Goto
<1>3. ASSUME NEW c \in Caller, BeginChunk(c) PROVE RegistryExact'
  BY <1>3 DEF BeginChunk, Begin, Goto
<1>4. ASSUME NEW c \in Caller, TransmitChunk(c) PROVE RegistryExact'
  BY <1>4 DEF TransmitChunk, Transmit
<1>5. ASSUME NEW c \in Caller, ChunkAccepted(c) PROVE RegistryExact'
  BY <1>5 DEF ChunkAccepted, End, Goto
<1>6. ASSUME NEW c \in Caller, ChunkFailed(c) PROVE RegistryExact'
  BY <1>6 DEF ChunkFailed, End, Goto
<1>7. ASSUME NEW c \in Caller, SendRefused(c) PROVE RegistryExact'
  BY <1>7 DEF SendRefused, Goto
<1>8. ASSUME NEW c \in Caller, GiveUp(c) PROVE RegistryExact'
  BY <1>8 DEF GiveUp, Goto
<1>9. ASSUME NEW c \in Caller, Wake(c) PROVE RegistryExact'
  BY <1>9 DEF Wake, EndWait, Goto
<1>10. ASSUME NEW c \in Caller, Expire(c) PROVE RegistryExact'
  BY <1>10 DEF Expire, EndWait, Goto
<1>11. ASSUME NEW c \in Caller, Retry(c) PROVE RegistryExact'
  BY <1>11 DEF Retry, StartAttempt, Goto
<1>12. ASSUME NEW c \in Caller, EndAttempts(c) PROVE RegistryExact'
  BY <1>12 DEF EndAttempts, Goto
<1>13. ASSUME NEW c \in Caller, Unregister(c) PROVE RegistryExact'
  BY <1>13 DEF Unregister, Goto
<1>14. ASSUME NEW c \in Caller, ReadResponse(c) PROVE RegistryExact'
  BY <1>14 DEF ReadResponse, Goto
<1>15. ASSUME NEW c \in Caller, Return(c) PROVE RegistryExact'
  BY <1>15 DEF Return, Goto
<1>16. CASE HandleAck
  BY <1>16 DEF HandleAck, Deliver
<1>17. CASE FindRequest
  BY <1>17 DEF FindRequest
<1>18. CASE WriteBegin
  BY <1>18 DEF WriteBegin, SetResponse
<1>19. CASE WriteEnd
  BY <1>19 DEF WriteEnd, SetResponse
<1>20. CASE SetReady
  BY <1>20 DEF SetReady
<1>21. CASE LoseFrames
  BY <1>21 DEF LoseFrames, Lose, Discard
<1>22. ASSUME NEW t \in Telegram, DeviceSends(t) PROVE RegistryExact'
  BY <1>22 DEF DeviceSends
<1>23. CASE UNCHANGED vars
  BY <1>23 DEF vars
<1> QED
  BY <1>1, <1>2, <1>3, <1>4, <1>5, <1>6, <1>7, <1>8, <1>9, <1>10, <1>11,
     <1>12, <1>13, <1>14, <1>15, <1>16, <1>17, <1>18, <1>19, <1>20, <1>21,
     <1>22, <1>23 DEF Next, CallStep, SendStep, CheckStep, DeliverStep

(* One command is open at a time, that of the thread that sends.           *)
LEMMA ChannelStep ==
  TypeOK /\ ChannelInv /\ [Next]_vars => ChannelInv'
<1> SUFFICES ASSUME TypeOK, ChannelInv, [Next]_vars
             PROVE  ChannelInv'
  OBVIOUS
<1> USE RadioAssumption, ChannelAssumption DEF TypeOK, ChannelTypeOK,
   Active, HoldsRequest, ChannelInv, channelVars, callVars, requestVars,
   listenVars
<1>1. ASSUME NEW c \in Caller, NEW w \in Filter, Call(c, w) PROVE ChannelInv'
  BY <1>1 DEF Call, Goto
<1>2. ASSUME NEW c \in Caller, LockRequest(c) PROVE ChannelInv'
  BY <1>2 DEF LockRequest, StartAttempt, Goto
<1>3. ASSUME NEW c \in Caller, BeginChunk(c) PROVE ChannelInv'
  BY <1>3 DEF BeginChunk, Begin, Goto
<1>4. ASSUME NEW c \in Caller, TransmitChunk(c) PROVE ChannelInv'
  BY <1>4 DEF TransmitChunk, Transmit
<1>5. ASSUME NEW c \in Caller, ChunkAccepted(c) PROVE ChannelInv'
  BY <1>5 DEF ChunkAccepted, End, Goto
<1>6. ASSUME NEW c \in Caller, ChunkFailed(c) PROVE ChannelInv'
  BY <1>6 DEF ChunkFailed, End, Goto
<1>7. ASSUME NEW c \in Caller, SendRefused(c) PROVE ChannelInv'
  BY <1>7 DEF SendRefused, Goto
<1>8. ASSUME NEW c \in Caller, GiveUp(c) PROVE ChannelInv'
  BY <1>8 DEF GiveUp, Goto
<1>9. ASSUME NEW c \in Caller, Wake(c) PROVE ChannelInv'
  BY <1>9 DEF Wake, EndWait, Goto
<1>10. ASSUME NEW c \in Caller, Expire(c) PROVE ChannelInv'
  BY <1>10 DEF Expire, EndWait, Goto
<1>11. ASSUME NEW c \in Caller, Retry(c) PROVE ChannelInv'
  BY <1>11 DEF Retry, StartAttempt, Goto
<1>12. ASSUME NEW c \in Caller, EndAttempts(c) PROVE ChannelInv'
  BY <1>12 DEF EndAttempts, Goto
<1>13. ASSUME NEW c \in Caller, Unregister(c) PROVE ChannelInv'
  BY <1>13 DEF Unregister, Goto
<1>14. ASSUME NEW c \in Caller, ReadResponse(c) PROVE ChannelInv'
  BY <1>14 DEF ReadResponse, Goto
<1>15. ASSUME NEW c \in Caller, Return(c) PROVE ChannelInv'
  BY <1>15 DEF Return, Goto
<1>16. CASE HandleAck
  BY <1>16 DEF HandleAck, Deliver
<1>17. CASE FindRequest
  BY <1>17 DEF FindRequest
<1>18. CASE WriteBegin
  BY <1>18 DEF WriteBegin, SetResponse
<1>19. CASE WriteEnd
  BY <1>19 DEF WriteEnd, SetResponse
<1>20. CASE SetReady
  BY <1>20 DEF SetReady
<1>21. CASE LoseFrames
  BY <1>21 DEF LoseFrames, Lose, Discard
<1>22. ASSUME NEW t \in Telegram, DeviceSends(t) PROVE ChannelInv'
  BY <1>22 DEF DeviceSends
<1>23. CASE UNCHANGED vars
  BY <1>23 DEF vars
<1> QED
  BY <1>1, <1>2, <1>3, <1>4, <1>5, <1>6, <1>7, <1>8, <1>9, <1>10, <1>11,
     <1>12, <1>13, <1>14, <1>15, <1>16, <1>17, <1>18, <1>19, <1>20, <1>21,
     <1>22, <1>23 DEF Next, CallStep, SendStep, CheckStep, DeliverStep

(* A call starts without an answer, as it ended.                           *)
LEMMA CallInvStep ==
  TypeOK /\ CallInv /\ ListenInv /\ [Next]_vars => CallInv'
<1> SUFFICES ASSUME TypeOK, CallInv, ListenInv, [Next]_vars
             PROVE  CallInv'
  OBVIOUS
<1> USE RadioAssumption, ChannelAssumption DEF TypeOK, ChannelTypeOK,
   Active, HoldsRequest, CallInv, ListenInv, channelVars, callVars,
   requestVars, listenVars
<1>1. ASSUME NEW c \in Caller, NEW w \in Filter, Call(c, w) PROVE CallInv'
  BY <1>1 DEF Call, Goto
<1>2. ASSUME NEW c \in Caller, LockRequest(c) PROVE CallInv'
  BY <1>2 DEF LockRequest, StartAttempt, Goto
<1>3. ASSUME NEW c \in Caller, BeginChunk(c) PROVE CallInv'
  BY <1>3 DEF BeginChunk, Begin, Goto
<1>4. ASSUME NEW c \in Caller, TransmitChunk(c) PROVE CallInv'
  BY <1>4 DEF TransmitChunk, Transmit
<1>5. ASSUME NEW c \in Caller, ChunkAccepted(c) PROVE CallInv'
  BY <1>5 DEF ChunkAccepted, End, Goto
<1>6. ASSUME NEW c \in Caller, ChunkFailed(c) PROVE CallInv'
  BY <1>6 DEF ChunkFailed, End, Goto
<1>7. ASSUME NEW c \in Caller, SendRefused(c) PROVE CallInv'
  BY <1>7 DEF SendRefused, Goto
<1>8. ASSUME NEW c \in Caller, GiveUp(c) PROVE CallInv'
  BY <1>8 DEF GiveUp, Goto
<1>9. ASSUME NEW c \in Caller, Wake(c) PROVE CallInv'
  BY <1>9 DEF Wake, EndWait, Goto
<1>10. ASSUME NEW c \in Caller, Expire(c) PROVE CallInv'
  BY <1>10 DEF Expire, EndWait, Goto
<1>11. ASSUME NEW c \in Caller, Retry(c) PROVE CallInv'
  BY <1>11 DEF Retry, StartAttempt, Goto
<1>12. ASSUME NEW c \in Caller, EndAttempts(c) PROVE CallInv'
  BY <1>12 DEF EndAttempts, Goto
<1>13. ASSUME NEW c \in Caller, Unregister(c) PROVE CallInv'
  BY <1>13 DEF Unregister, Goto
<1>14. ASSUME NEW c \in Caller, ReadResponse(c) PROVE CallInv'
  BY <1>14 DEF ReadResponse, Goto
<1>15. ASSUME NEW c \in Caller, Return(c) PROVE CallInv'
  BY <1>15 DEF Return, Goto
<1>16. CASE HandleAck
  BY <1>16 DEF HandleAck, Deliver
<1>17. CASE FindRequest
  BY <1>17 DEF FindRequest
<1>18. CASE WriteBegin
  BY <1>18 DEF WriteBegin, SetResponse
<1>19. CASE WriteEnd
  BY <1>19 DEF WriteEnd, SetResponse
<1>20. CASE SetReady
  BY <1>20 DEF SetReady
<1>21. CASE LoseFrames
  BY <1>21 DEF LoseFrames, Lose, Discard
<1>22. ASSUME NEW t \in Telegram, DeviceSends(t) PROVE CallInv'
  BY <1>22 DEF DeviceSends
<1>23. CASE UNCHANGED vars
  BY <1>23 DEF vars
<1> QED
  BY <1>1, <1>2, <1>3, <1>4, <1>5, <1>6, <1>7, <1>8, <1>9, <1>10, <1>11,
     <1>12, <1>13, <1>14, <1>15, <1>16, <1>17, <1>18, <1>19, <1>20, <1>21,
     <1>22, <1>23 DEF Next, CallStep, SendStep, CheckStep, DeliverStep

(* A request the listen thread has found is that of a running call; if the *)
(* call returns first, it becomes an orphan.                               *)
LEMMA ListenStep ==
  TypeOK /\ RegistryExact /\ ListenInv /\ [Next]_vars => ListenInv'
<1> SUFFICES ASSUME TypeOK, RegistryExact, ListenInv, [Next]_vars
             PROVE  ListenInv'
  OBVIOUS
<1> USE RadioAssumption, ChannelAssumption DEF TypeOK, ChannelTypeOK,
   Active, HoldsRequest, RegistryExact, ListenInv, channelVars, callVars,
   requestVars, listenVars
<1>1. ASSUME NEW c \in Caller, NEW w \in Filter, Call(c, w) PROVE ListenInv'
  BY <1>1 DEF Call, Goto
<1>2. ASSUME NEW c \in Caller, LockRequest(c) PROVE ListenInv'
  BY <1>2 DEF LockRequest, StartAttempt, Goto
<1>3. ASSUME NEW c \in Caller, BeginChunk(c) PROVE ListenInv'
  BY <1>3 DEF BeginChunk, Begin, Goto
<1>4. ASSUME NEW c \in Caller, TransmitChunk(c) PROVE ListenInv'
  BY <1>4 DEF TransmitChunk, Transmit
<1>5. ASSUME NEW c \in Caller, ChunkAccepted(c) PROVE ListenInv'
  BY <1>5 DEF ChunkAccepted, End, Goto
<1>6. ASSUME NEW c \in Caller, ChunkFailed(c) PROVE ListenInv'
  BY <1>6 DEF ChunkFailed, End, Goto
<1>7. ASSUME NEW c \in Caller, SendRefused(c) PROVE ListenInv'
  BY <1>7 DEF SendRefused, Goto
<1>8. ASSUME NEW c \in Caller, GiveUp(c) PROVE ListenInv'
  BY <1>8 DEF GiveUp, Goto
<1>9. ASSUME NEW c \in Caller, Wake(c) PROVE ListenInv'
  BY <1>9 DEF Wake, EndWait, Goto
<1>10. ASSUME NEW c \in Caller, Expire(c) PROVE ListenInv'
  BY <1>10 DEF Expire, EndWait, Goto
<1>11. ASSUME NEW c \in Caller, Retry(c) PROVE ListenInv'
  BY <1>11 DEF Retry, StartAttempt, Goto
<1>12. ASSUME NEW c \in Caller, EndAttempts(c) PROVE ListenInv'
  BY <1>12 DEF EndAttempts, Goto
<1>13. ASSUME NEW c \in Caller, Unregister(c) PROVE ListenInv'
  BY <1>13 DEF Unregister, Goto
<1>14. ASSUME NEW c \in Caller, ReadResponse(c) PROVE ListenInv'
  BY <1>14 DEF ReadResponse, Goto
<1>15. ASSUME NEW c \in Caller, Return(c) PROVE ListenInv'
  BY <1>15 DEF Return, Goto
<1>16. CASE HandleAck
  BY <1>16 DEF HandleAck, Deliver
<1>17. CASE FindRequest
  BY <1>17, LineTyping DEF FindRequest
<1>18. CASE WriteBegin
  BY <1>18 DEF WriteBegin, SetResponse
<1>19. CASE WriteEnd
  BY <1>19 DEF WriteEnd, SetResponse
<1>20. CASE SetReady
  BY <1>20 DEF SetReady
<1>21. CASE LoseFrames
  BY <1>21 DEF LoseFrames, Lose, Discard
<1>22. ASSUME NEW t \in Telegram, DeviceSends(t) PROVE ListenInv'
  BY <1>22 DEF DeviceSends
<1>23. CASE UNCHANGED vars
  BY <1>23 DEF vars
<1> QED
  BY <1>1, <1>2, <1>3, <1>4, <1>5, <1>6, <1>7, <1>8, <1>9, <1>10, <1>11,
     <1>12, <1>13, <1>14, <1>15, <1>16, <1>17, <1>18, <1>19, <1>20, <1>21,
     <1>22, <1>23 DEF Next, CallStep, SendStep, CheckStep, DeliverStep

(* The filter is asked once, when the request is found, and stays the same *)
(* until the call returns.                                                 *)
LEMMA AnswerStep ==
  TypeOK /\ CallInv /\ ListenInv /\ AnswerInv /\ [Next]_vars => AnswerInv'
<1> SUFFICES ASSUME TypeOK, CallInv, ListenInv, AnswerInv, [Next]_vars
             PROVE  AnswerInv'
  OBVIOUS
<1> USE RadioAssumption, ChannelAssumption DEF TypeOK, ChannelTypeOK,
   Active, HoldsRequest, CallInv, ListenInv, AnswerInv, Matches,
   channelVars, callVars, requestVars, listenVars
<1>1. ASSUME NEW c \in Caller, NEW w \in Filter, Call(c, w) PROVE AnswerInv'
  BY <1>1 DEF Call, Goto
<1>2. ASSUME NEW c \in Caller, LockRequest(c) PROVE AnswerInv'
  BY <1>2 DEF LockRequest, StartAttempt, Goto
<1>3. ASSUME NEW c \in Caller, BeginChunk(c) PROVE AnswerInv'
  BY <1>3 DEF BeginChunk, Begin, Goto
<1>4. ASSUME NEW c \in Caller, TransmitChunk(c) PROVE AnswerInv'
  BY <1>4 DEF TransmitChunk, Transmit
<1>5. ASSUME NEW c \in Caller, ChunkAccepted(c) PROVE AnswerInv'
  BY <1>5 DEF ChunkAccepted, End, Goto
<1>6. ASSUME NEW c \in Caller, ChunkFailed(c) PROVE AnswerInv'
  BY <1>6 DEF ChunkFailed, End, Goto
<1>7. ASSUME NEW c \in Caller, SendRefused(c) PROVE AnswerInv'
  BY <1>7 DEF SendRefused, Goto
<1>8. ASSUME NEW c \in Caller, GiveUp(c) PROVE AnswerInv'
  BY <1>8 DEF GiveUp, Goto
<1>9. ASSUME NEW c \in Caller, Wake(c) PROVE AnswerInv'
  BY <1>9 DEF Wake, EndWait, Goto
<1>10. ASSUME NEW c \in Caller, Expire(c) PROVE AnswerInv'
  BY <1>10 DEF Expire, EndWait, Goto
<1>11. ASSUME NEW c \in Caller, Retry(c) PROVE AnswerInv'
  BY <1>11 DEF Retry, StartAttempt, Goto
<1>12. ASSUME NEW c \in Caller, EndAttempts(c) PROVE AnswerInv'
  BY <1>12 DEF EndAttempts, Goto
<1>13. ASSUME NEW c \in Caller, Unregister(c) PROVE AnswerInv'
  BY <1>13 DEF Unregister, Goto
<1>14. ASSUME NEW c \in Caller, ReadResponse(c) PROVE AnswerInv'
  BY <1>14 DEF ReadResponse, Goto
<1>15. ASSUME NEW c \in Caller, Return(c) PROVE AnswerInv'
  BY <1>15 DEF Return, Goto
<1>16. CASE HandleAck
  BY <1>16 DEF HandleAck, Deliver
<1>17. CASE FindRequest
  BY <1>17 DEF FindRequest
<1>18. CASE WriteBegin
  BY <1>18 DEF WriteBegin, SetResponse
<1>19. CASE WriteEnd
  BY <1>19 DEF WriteEnd, SetResponse
<1>20. CASE SetReady
  BY <1>20 DEF SetReady
<1>21. CASE LoseFrames
  BY <1>21 DEF LoseFrames, Lose, Discard
<1>22. ASSUME NEW t \in Telegram, DeviceSends(t) PROVE AnswerInv'
  BY <1>22 DEF DeviceSends
<1>23. CASE UNCHANGED vars
  BY <1>23 DEF vars
<1> QED
  BY <1>1, <1>2, <1>3, <1>4, <1>5, <1>6, <1>7, <1>8, <1>9, <1>10, <1>11,
     <1>12, <1>13, <1>14, <1>15, <1>16, <1>17, <1>18, <1>19, <1>20, <1>21,
     <1>22, <1>23 DEF Next, CallStep, SendStep, CheckStep, DeliverStep

-----------------------------------------------------------------------------
(* The inductive invariant holds at the start, and every step keeps it.    *)
LEMMA InitIInv == Init => IInv
<1> SUFFICES ASSUME Init PROVE IInv
  OBVIOUS
<1> USE RadioAssumption, ChannelAssumption DEF Init, ChannelInit
<1>1. TypeOK
  BY EmptyLine DEF TypeOK, ChannelTypeOK, Phase
<1>2. RegistryExact /\ ChannelInv
  BY DEF RegistryExact, Active, ChannelInv
<1>3. CallInv /\ ListenInv
  BY DEF CallInv, ListenInv
<1>4. AnswerInv
  BY DEF AnswerInv
<1> QED
  BY <1>1, <1>2, <1>3, <1>4 DEF IInv

LEMMA NextIInv == IInv /\ [Next]_vars => IInv'
  BY TypeStep, RegistryStep, ChannelStep, CallInvStep, ListenStep, AnswerStep
     DEF IInv

(* In every state the program can be in, requests, the map of maps, the    *)
(* channel below and the place of every thread agree.                      *)
THEOREM Invariance == Spec => []IInv
  BY InitIInv, NextIInv, PTL DEF Spec

(* Every variable keeps its type, for any number of threads, chunks,       *)
(* retries and frames.                                                     *)
THEOREM TypeInvariant == Spec => []TypeOK
  BY Invariance, PTL DEF IInv

(* sendAndReceivePacket leaves nothing in _enoceanRequests, whichever way  *)
(* it returns, and is registered as long as an answer is of use.           *)
THEOREM RequestTable == Spec => []RegistryExact
  BY Invariance, PTL DEF IInv

(* sendAndReceivePacket returns only telegrams of the device it addressed  *)
(* with the function it asked for, whatever arrives, and however late the  *)
(* listen thread writes the response.                                      *)
THEOREM AskedFor == Spec => []AnswerMatchesRequest
<1>1. IInv => AnswerMatchesRequest
  BY DEF IInv, AnswerInv, AnswerMatchesRequest
<1> QED
  BY <1>1, Invariance, PTL
=============================================================================
