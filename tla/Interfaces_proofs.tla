-------------------------- MODULE Interfaces_proofs --------------------------
(***************************************************************************)
(* Proofs about the physical interfaces.                                   *)
(*                                                                         *)
(* First getResponse and checkForSerialRequest, for any number of threads, *)
(* request objects and frames: types, mutual exclusion of the exchanges    *)
(* with an exact request table, that an exchange begun on a quiet line     *)
(* gets its own acknowledgement, and that the whole is a half-duplex       *)
(* channel.                                                                *)
(*                                                                         *)
(* Then the life of an interface, for any number of sticks, of changes of  *)
(* their addresses and of calls: types, that a stick that is initialised   *)
(* has its own address, and that a call of a gateway returns the response  *)
(* of an earlier one only after that one was given up or doubled.          *)
(***************************************************************************)
EXTENDS SerialExchange, Interfaces, TLAPS

(* A thread refers to a request object exactly while its exchange lasts;   *)
(* the listen thread refers to one exactly while it delivers a frame; the  *)
(* end of the wait is recorded only after the wait.                        *)
ReferenceInv ==
  /\ \A c \in Caller : pc[c] \in Exchanging <=> mine[c] # None
  /\ lpc = "idle" <=> held = None
  /\ \A c \in Caller : pc[c] \notin HoldsRequest => outcome[c] = "none"

Quiet(c) == pc[c] \in Exchanging /\ ~dirty[c]

(* Where the one acknowledgement of a quiet exchange with request r is:    *)
(* nowhere yet, on the line, in the hands of the listen thread, or         *)
(* announced.                                                              *)
OnTheWay(c, r) ==
  /\ inbox \in {<<>>, <<r>>}
  /\ pc[c] = "send" => inbox = <<>> /\ held # r /\ ~ready[r]
  /\ inbox = <<r>> => held # r /\ ~ready[r]
  /\ held = r => ack = r /\ ~ready[r]

Written(r) ==
  /\ ready[r] => response[r] = r
  /\ ~ready[r] /\ held # r => response[r] = None
  /\ held = r => response[r] = CASE lpc = "write" -> None
                                 [] lpc = "writing" -> Torn
                                 [] OTHER -> r

HandedBack(c, r) ==
  /\ outcome[c] = "answered" => ready[r]
  /\ pc[c] \in {"erase", "return"} =>
       /\ result[c] \in {r, None, Torn}
       /\ outcome[c] = "answered" => result[c] = r

QuietInv ==
  \A c \in Caller : Quiet(c) =>
    OnTheWay(c, mine[c]) /\ Written(mine[c]) /\ HandedBack(c, mine[c])

IInv == TypeOK /\ OneExchange /\ ReferenceInv /\ QuietInv

-----------------------------------------------------------------------------
(* What the listen thread does to the line.                                *)
LEMMA EmptyLine == <<>> \in Seq(Request)
  OBVIOUS

LEMMA LineTyping ==
  ASSUME inbox \in Seq(Request), inbox # <<>>
  PROVE  Head(inbox) \in Request /\ Tail(inbox) \in Seq(Request)
  OBVIOUS

(* The types need ReferenceInv: RawSend puts mine[c] on the line.          *)
LEMMA TypeStep ==
  TypeOK /\ ReferenceInv /\ [Next]_vars => TypeOK'
<1> SUFFICES ASSUME TypeOK, ReferenceInv, [Next]_vars
             PROVE  TypeOK'
  OBVIOUS
<1> USE ExchangeAssumption DEF TypeOK, ReferenceInv, Registered, Exchanging,
      HoldsRequest, callerVars, requestVars, listenVars, deviceVars
<1>1. ASSUME NEW c \in Caller, Enter(c) PROVE TypeOK'
  BY <1>1 DEF Enter, Goto
<1>2. ASSUME NEW c \in Caller, Register(c) PROVE TypeOK'
  BY <1>2 DEF Register, RegisterRequest, Goto
<1>3. ASSUME NEW c \in Caller, RawSend(c) PROVE TypeOK'
  BY <1>3 DEF RawSend, Goto
<1>4. ASSUME NEW c \in Caller, Wake(c) PROVE TypeOK'
  BY <1>4 DEF Wake, EndWait, Goto
<1>5. ASSUME NEW c \in Caller, Expire(c) PROVE TypeOK'
  BY <1>5 DEF Expire, EndWait, Goto
<1>6. ASSUME NEW c \in Caller, CopyResponse(c) PROVE TypeOK'
  BY <1>6 DEF CopyResponse, Goto
<1>7. ASSUME NEW c \in Caller, Erase(c) PROVE TypeOK'
  BY <1>7 DEF Erase, Goto
<1>8. ASSUME NEW c \in Caller, Return(c) PROVE TypeOK'
  BY <1>8 DEF Return, Goto
<1>9. CASE FindRequest
  BY <1>9, LineTyping DEF FindRequest
<1>10. CASE WriteBegin
  BY <1>10 DEF WriteBegin
<1>11. CASE WriteEnd
  BY <1>11 DEF WriteEnd
<1>12. CASE SetReady
  BY <1>12 DEF SetReady
<1>13. CASE DropFrame
  BY <1>13, LineTyping DEF DropFrame
<1>14. CASE ReadError
  BY <1>14 DEF ReadError
<1>15. CASE CloseDevice
  BY <1>15, EmptyLine DEF CloseDevice
<1>16. CASE Reopen
  BY <1>16 DEF Reopen
<1>17. CASE UNCHANGED vars
  BY <1>17 DEF vars
<1> QED
  BY <1>1, <1>2, <1>3, <1>4, <1>5, <1>6, <1>7, <1>8, <1>9, <1>10, <1>11,
     <1>12, <1>13, <1>14, <1>15, <1>16, <1>17
     DEF Next, CallerStep, ListenStep, DeliverStep

(* Threads pick up and drop their request objects where they should.       *)
LEMMA ReferenceStep ==
  TypeOK /\ ReferenceInv /\ [Next]_vars => ReferenceInv'
<1> SUFFICES ASSUME TypeOK, ReferenceInv, [Next]_vars
             PROVE  ReferenceInv'
  OBVIOUS
<1> USE ExchangeAssumption DEF TypeOK, ReferenceInv, Registered, Exchanging,
      HoldsRequest, callerVars, requestVars, listenVars, deviceVars
<1>1. ASSUME NEW c \in Caller, Enter(c) PROVE ReferenceInv'
  BY <1>1 DEF Enter, Goto
<1>2. ASSUME NEW c \in Caller, Register(c) PROVE ReferenceInv'
  BY <1>2 DEF Register, RegisterRequest, Goto
<1>3. ASSUME NEW c \in Caller, RawSend(c) PROVE ReferenceInv'
  BY <1>3 DEF RawSend, Goto
<1>4. ASSUME NEW c \in Caller, Wake(c) PROVE ReferenceInv'
  BY <1>4 DEF Wake, EndWait, Goto
<1>5. ASSUME NEW c \in Caller, Expire(c) PROVE ReferenceInv'
  BY <1>5 DEF Expire, EndWait, Goto
<1>6. ASSUME NEW c \in Caller, CopyResponse(c) PROVE ReferenceInv'
  BY <1>6 DEF CopyResponse, Goto
<1>7. ASSUME NEW c \in Caller, Erase(c) PROVE ReferenceInv'
  BY <1>7 DEF Erase, Goto
<1>8. ASSUME NEW c \in Caller, Return(c) PROVE ReferenceInv'
  BY <1>8 DEF Return, Goto
<1>9. CASE FindRequest
  BY <1>9 DEF FindRequest
<1>10. CASE WriteBegin
  BY <1>10 DEF WriteBegin
<1>11. CASE WriteEnd
  BY <1>11 DEF WriteEnd
<1>12. CASE SetReady
  BY <1>12 DEF SetReady
<1>13. CASE DropFrame
  BY <1>13 DEF DropFrame
<1>14. CASE ReadError
  BY <1>14 DEF ReadError
<1>15. CASE CloseDevice
  BY <1>15 DEF CloseDevice
<1>16. CASE Reopen
  BY <1>16 DEF Reopen
<1>17. CASE UNCHANGED vars
  BY <1>17 DEF vars
<1> QED
  BY <1>1, <1>2, <1>3, <1>4, <1>5, <1>6, <1>7, <1>8, <1>9, <1>10, <1>11,
     <1>12, <1>13, <1>14, <1>15, <1>16, <1>17
     DEF Next, CallerStep, ListenStep, DeliverStep

(* The mutex alone keeps the exchanges and their table entries apart.      *)
LEMMA ExchangeStep ==
  TypeOK /\ ReferenceInv /\ OneExchange /\ [Next]_vars => OneExchange'
<1> SUFFICES ASSUME TypeOK, ReferenceInv, OneExchange, [Next]_vars
             PROVE  OneExchange'
  OBVIOUS
<1> USE ExchangeAssumption DEF TypeOK, ReferenceInv, OneExchange,
      Registered, Exchanging, HoldsRequest, callerVars, requestVars,
      listenVars, deviceVars
<1>1. ASSUME NEW c \in Caller, Enter(c) PROVE OneExchange'
  BY <1>1 DEF Enter, Goto
<1>2. ASSUME NEW c \in Caller, Register(c) PROVE OneExchange'
  BY <1>2 DEF Register, RegisterRequest, Goto
<1>3. ASSUME NEW c \in Caller, RawSend(c) PROVE OneExchange'
  BY <1>3 DEF RawSend, Goto
<1>4. ASSUME NEW c \in Caller, Wake(c) PROVE OneExchange'
  BY <1>4 DEF Wake, EndWait, Goto
<1>5. ASSUME NEW c \in Caller, Expire(c) PROVE OneExchange'
  BY <1>5 DEF Expire, EndWait, Goto
<1>6. ASSUME NEW c \in Caller, CopyResponse(c) PROVE OneExchange'
  BY <1>6 DEF CopyResponse, Goto
<1>7. ASSUME NEW c \in Caller, Erase(c) PROVE OneExchange'
  BY <1>7 DEF Erase, Goto
<1>8. ASSUME NEW c \in Caller, Return(c) PROVE OneExchange'
  BY <1>8 DEF Return, Goto
<1>9. CASE FindRequest
  BY <1>9 DEF FindRequest
<1>10. CASE WriteBegin
  BY <1>10 DEF WriteBegin
<1>11. CASE WriteEnd
  BY <1>11 DEF WriteEnd
<1>12. CASE SetReady
  BY <1>12 DEF SetReady
<1>13. CASE DropFrame
  BY <1>13 DEF DropFrame
<1>14. CASE ReadError
  BY <1>14 DEF ReadError
<1>15. CASE CloseDevice
  BY <1>15 DEF CloseDevice
<1>16. CASE Reopen
  BY <1>16 DEF Reopen
<1>17. CASE UNCHANGED vars
  BY <1>17 DEF vars
<1> QED
  BY <1>1, <1>2, <1>3, <1>4, <1>5, <1>6, <1>7, <1>8, <1>9, <1>10, <1>11,
     <1>12, <1>13, <1>14, <1>15, <1>16, <1>17
     DEF Next, CallerStep, ListenStep, DeliverStep

(* The acknowledgement of a quiet exchange stays on its way.               *)
LEMMA QuietStep ==
  TypeOK /\ ReferenceInv /\ OneExchange /\ QuietInv /\ [Next]_vars => QuietInv'
<1> SUFFICES ASSUME TypeOK, ReferenceInv, OneExchange, QuietInv, [Next]_vars
             PROVE  QuietInv'
  OBVIOUS
<1> USE ExchangeAssumption DEF TypeOK, ReferenceInv, OneExchange, QuietInv,
      Quiet, OnTheWay, Written, HandedBack, Registered, Exchanging,
      HoldsRequest, callerVars, requestVars, listenVars, deviceVars
<1>1. ASSUME NEW c \in Caller, Enter(c) PROVE QuietInv'
  BY <1>1 DEF Enter, Goto
<1>2. ASSUME NEW c \in Caller, Register(c) PROVE QuietInv'
  <2> SUFFICES ASSUME NEW d \in Caller, Quiet(d)'
               PROVE  (OnTheWay(d, mine[d]) /\ Written(mine[d]) /\
     HandedBack(d, mine[d]))'
    OBVIOUS
  <2>1. PICK r \in Request : RegisterRequest(c, r)
    BY <1>2 DEF Register
  <2>2. d = c /\ mine'[d] = r
    BY <1>2, <2>1 DEF Register, RegisterRequest, Goto
  <2>3. inbox = <<>> /\ inbox' = <<>>
    BY <2>1, <2>2 DEF RegisterRequest
  <2>4. held # r /\ held' = held
    BY <2>1 DEF RegisterRequest, Free
  <2>5. ~ready'[r] /\ response'[r] = None
    BY <2>1 DEF RegisterRequest
  <2>6. pc'[c] = "send" /\ outcome'[c] = "none"
    BY <2>1 DEF RegisterRequest, Goto
  <2> QED
    BY <2>2, <2>3, <2>4, <2>5, <2>6
<1>3. ASSUME NEW c \in Caller, RawSend(c) PROVE QuietInv'
  <2> SUFFICES ASSUME NEW d \in Caller, Quiet(d)'
               PROVE  (OnTheWay(d, mine[d]) /\ Written(mine[d]) /\
     HandedBack(d, mine[d]))'
    OBVIOUS
  <2>1. d = c /\ Quiet(c) /\ mine'[c] = mine[c] /\ pc[c] = "send" /\ pc'[c]
     = "waiting"
    BY <1>3 DEF RawSend, Goto
  <2>2. inbox = <<>> /\ held # mine[c] /\ ~ready[mine[c]]
    BY <2>1
  <2>3. inbox' \in {<<>>, <<mine[c]>>}
    BY <1>3, <2>2 DEF RawSend
  <2>4. UNCHANGED <<requestVars, listenVars, outcome, result>>
    BY <1>3 DEF RawSend
  <2> QED
    BY <2>1, <2>2, <2>3, <2>4
<1>4. ASSUME NEW c \in Caller, Wake(c) PROVE QuietInv'
  BY <1>4 DEF Wake, EndWait, Goto
<1>5. ASSUME NEW c \in Caller, Expire(c) PROVE QuietInv'
  BY <1>5 DEF Expire, EndWait, Goto
<1>6. ASSUME NEW c \in Caller, CopyResponse(c) PROVE QuietInv'
  BY <1>6 DEF CopyResponse, Goto
<1>7. ASSUME NEW c \in Caller, Erase(c) PROVE QuietInv'
  BY <1>7 DEF Erase, Goto
<1>8. ASSUME NEW c \in Caller, Return(c) PROVE QuietInv'
  BY <1>8 DEF Return, Goto
<1>9. CASE FindRequest
  BY <1>9 DEF FindRequest
<1>10. CASE WriteBegin
  BY <1>10 DEF WriteBegin
<1>11. CASE WriteEnd
  BY <1>11 DEF WriteEnd
<1>12. CASE SetReady
  BY <1>12 DEF SetReady
<1>13. CASE DropFrame
  BY <1>13 DEF DropFrame
<1>14. CASE ReadError
  BY <1>14 DEF ReadError
<1>15. CASE CloseDevice
  BY <1>15 DEF CloseDevice
<1>16. CASE Reopen
  BY <1>16 DEF Reopen
<1>17. CASE UNCHANGED vars
  BY <1>17 DEF vars
<1> QED
  BY <1>1, <1>2, <1>3, <1>4, <1>5, <1>6, <1>7, <1>8, <1>9, <1>10, <1>11,
     <1>12, <1>13, <1>14, <1>15, <1>16, <1>17
     DEF Next, CallerStep, ListenStep, DeliverStep

-----------------------------------------------------------------------------
(* The inductive invariant holds at the start, and every step keeps it.    *)
LEMMA InitIInv == Init => IInv
  BY ExchangeAssumption, EmptyLine
     DEF Init, IInv, TypeOK, OneExchange, ReferenceInv, QuietInv, Quiet,
         Registered, Exchanging, HoldsRequest

LEMMA NextIInv == IInv /\ [Next]_vars => IInv'
  BY TypeStep, ReferenceStep, ExchangeStep, QuietStep DEF IInv

(* In every state the program can be in, request objects, the table and    *)
(* the mutex agree with where the threads are.                             *)
THEOREM Invariance == Spec => []IInv
  BY InitIInv, NextIInv, PTL DEF Spec

(* Every variable keeps its type in every behaviour, whatever the number   *)
(* of threads, request objects and frames.                                 *)
THEOREM TypeInvariant == Spec => []TypeOK
  BY Invariance, PTL DEF IInv

(* Exchanges exclude each other, and _serialRequests holds exactly the     *)
(* request of the exchange under way.                                      *)
THEOREM MutualExclusion == Spec => []OneExchange
  BY Invariance, PTL DEF IInv

(* getResponse hands back its own acknowledgement, whole, when its wait    *)
(* was answered, provided that the line was quiet when it registered.      *)
THEOREM OwnAnswer == Spec => []OwnAnswerOnQuietLine
<1>1. IInv => OwnAnswerOnQuietLine
  BY DEF IInv, QuietInv, Quiet, HandedBack, OwnAnswerOnQuietLine, Exchanging
<1> QED
  BY <1>1, Invariance, PTL

-----------------------------------------------------------------------------
(* The sequences that stand for the channel's line.                        *)
LEMMA AcksAppend == ASSUME NEW n \in Nat PROVE Append(Acks(n), "ack") = Acks(n + 1)
  BY DEF Acks

LEMMA AcksTail ==
  ASSUME NEW n \in Nat
  PROVE  /\ Acks(n + 1) # <<>>
         /\ Head(Acks(n + 1)) = "ack"
         /\ Tail(Acks(n + 1)) = Acks(n)
  BY DEF Acks

LEMMA AcksEmpty == Acks(0) = <<>>
  BY DEF Acks

LEMMA LineLength ==
  ASSUME NEW r \in Request, inbox \in Seq(Request)
  PROVE  /\ Len(Append(inbox, r)) = Len(inbox) + 1
         /\ inbox # <<>> => Len(Tail(inbox)) = Len(inbox) - 1
  OBVIOUS

LEMMA UndeliveredTyping == TypeOK => Undelivered \in Nat
  BY DEF TypeOK, Undelivered

(* How the caller's steps look on the channel.                             *)
LEMMA CallerRefines ==
  ASSUME IInv, NEW c \in Caller, CallerStep(c)
  PROVE  [Channel!ChannelNext]_(Channel!channelVars)
<1> USE ExchangeAssumption DEF IInv, TypeOK, OneExchange, ReferenceInv,
      Registered, Exchanging, HoldsRequest
<1>1. ASSUME Register(c) PROVE Channel!Begin(c)
  BY <1>1 DEF Register, RegisterRequest, Goto, Channel!Begin, Undelivered,
      listenVars, deviceVars
<1>2. ASSUME RawSend(c) PROVE Channel!Transmit(c)
  <2>1. mutex = c /\ mutex' = c /\ pc[c] = "send" /\ pc'[c] = "waiting"
    BY <1>2 DEF RawSend, Goto, requestVars
  <2>2. Undelivered' \in {Undelivered, Undelivered + 1}
    <3>1. mine[c] \in Request /\ lpc' = lpc
      BY <1>2 DEF RawSend, Goto, listenVars
    <3>2. Len(inbox') \in {Len(inbox), Len(inbox) + 1}
      BY <1>2, <3>1, LineLength DEF RawSend
    <3>3. Len(inbox) \in Nat
      OBVIOUS
    <3> QED
      BY <3>1, <3>2, <3>3 DEF Undelivered
  <2>3. Acks(Undelivered)' \in {Acks(Undelivered), Append(Acks(Undelivered), "ack")}
    BY <2>2, AcksAppend, UndeliveredTyping DEF Acks
  <2>4. UNCHANGED <<ready, mine>>
    BY <1>2 DEF RawSend, requestVars
  <2> QED
    BY <2>1, <2>3, <2>4 DEF Channel!Transmit
<1>3. ASSUME Return(c) PROVE Channel!End(c)
  BY <1>3 DEF Return, Goto, Channel!End, Undelivered, listenVars
<1>4. ASSUME Enter(c) \/ Wake(c) \/ Expire(c) \/ CopyResponse(c) \/ Erase(c)
      PROVE  UNCHANGED Channel!channelVars
  <2>1. mutex' = mutex /\ mine' = mine /\ ready' = ready
    BY <1>4 DEF Enter, Wake, Expire, EndWait, CopyResponse, Erase, requestVars
  <2>2. mutex # None => (pc[mutex] = "send" <=> pc'[mutex] = "send")
    BY <1>4 DEF Enter, Wake, Expire, EndWait, CopyResponse, Erase, Goto
  <2>3. Undelivered' = Undelivered
    BY <1>4 DEF Enter, Wake, Expire, EndWait, CopyResponse, Erase, Undelivered,
        listenVars, deviceVars
  <2> QED
    BY <2>1, <2>2, <2>3 DEF Channel!channelVars, Acks
<1> QED
  BY <1>1, <1>2, <1>3, <1>4 DEF CallerStep, Channel!ChannelNext

(* How the listen thread's steps look on the channel: the frame leaves the *)
(* line when the request is marked ready, or when nobody waits for it.     *)
LEMMA OldestLeaves ==
  ASSUME TypeOK, TypeOK', Undelivered = Undelivered' + 1
  PROVE  /\ Acks(Undelivered) # <<>>
         /\ Head(Acks(Undelivered)) = "ack"
         /\ Acks(Undelivered)' = Tail(Acks(Undelivered))
<1>1. Undelivered' \in Nat
  BY DEF TypeOK, Undelivered
<1>2. Acks(Undelivered)' = Acks(Undelivered')
  BY DEF Acks
<1> QED
  BY <1>1, <1>2, AcksTail

LEMMA ListenRefines ==
  ASSUME IInv, IInv', ListenStep
  PROVE  [Channel!ChannelNext]_(Channel!channelVars)
<1> USE ExchangeAssumption DEF IInv, TypeOK, ReferenceInv
<1>1. ASSUME DropFrame \/ (FindRequest /\ table = None) PROVE Channel!Lose
  <2>1. Undelivered = Undelivered' + 1
    BY <1>1, LineLength DEF DropFrame, FindRequest, Undelivered, listenVars
  <2>2. UNCHANGED <<callerVars, requestVars>>
    BY <1>1 DEF DropFrame, FindRequest
  <2> QED
    BY <2>1, <2>2, OldestLeaves DEF Channel!Lose, callerVars, requestVars
<1>2. ASSUME SetReady PROVE Channel!Deliver \/ Channel!Lose
  <2>1. Undelivered = Undelivered' + 1
    BY <1>2 DEF SetReady, Undelivered, deviceVars
  <2>2. UNCHANGED <<mutex, mine, pc>> /\ ready' = [ready EXCEPT ![held] = TRUE]
    BY <1>2 DEF SetReady, callerVars
  <2>3. CASE mutex # None /\ mine[mutex] = held
    BY <2>1, <2>2, <2>3, OldestLeaves, <1>2 DEF Channel!Deliver, SetReady
  <2>4. CASE mutex = None \/ mine[mutex] # held
    BY <2>1, <2>2, <2>4, OldestLeaves DEF Channel!Lose
  <2> QED
    BY <2>3, <2>4
<1>3. ASSUME CloseDevice PROVE Channel!Discard
  BY <1>3, AcksEmpty DEF CloseDevice, Channel!Discard, Undelivered, Acks,
      callerVars, requestVars, listenVars
<1>4. ASSUME \/ (FindRequest /\ table # None)
             \/ WriteBegin \/ WriteEnd \/ ReadError \/ Reopen
      PROVE  UNCHANGED Channel!channelVars
  <2>1. UNCHANGED <<mutex, mine, pc, ready>>
    BY <1>4 DEF FindRequest, WriteBegin, WriteEnd, ReadError, Reopen,
        callerVars, requestVars
  <2>2. Undelivered' = Undelivered
    BY <1>4, LineLength DEF FindRequest, WriteBegin, WriteEnd, ReadError, Reopen,
        Undelivered, listenVars, deviceVars
  <2> QED
    BY <2>1, <2>2 DEF Channel!channelVars, Acks
<1>5. FindRequest \/ DropFrame \/ SetReady \/ CloseDevice
        \/ WriteBegin \/ WriteEnd \/ ReadError \/ Reopen
  BY DEF ListenStep, DeliverStep
<1> HIDE DEF IInv, TypeOK, ReferenceInv
<1> QED
  BY <1>1, <1>2, <1>3, <1>4, <1>5 DEF Channel!ChannelNext

(* Seen from outside, every behaviour of the exchange is one of the        *)
(* half-duplex command channel.                                            *)
THEOREM Refinement == Spec => ImplementsChannel
<1>1. Init => Channel!ChannelInit
  BY AcksEmpty DEF Init, Channel!ChannelInit, Undelivered
<1>2. IInv /\ IInv' /\ [Next]_vars => [Channel!ChannelNext]_(Channel!channelVars)
  <2> SUFFICES ASSUME IInv, IInv', [Next]_vars
               PROVE  [Channel!ChannelNext]_(Channel!channelVars)
    OBVIOUS
  <2>1. CASE UNCHANGED vars
    BY <2>1 DEF vars, callerVars, requestVars, listenVars, deviceVars,
        Channel!channelVars, Acks, Undelivered
  <2> QED
    BY <2>1, CallerRefines, ListenRefines DEF Next
<1> QED
  BY <1>1, <1>2, Invariance, PTL DEF Spec, ImplementsChannel, Channel!ChannelSpec

-----------------------------------------------------------------------------
(* The life of an interface.                                               *)

(* A call of a gateway that has _invokeMutex.                              *)
Invoking(t) == calling[t].pc \in {"send", "wait"}

(* A call that was given up or sent twice, or an earlier one was.          *)
Doubted(x) == \E d \in doubtful : d <= x

(* One call of a gateway at a time sends and waits, the one last numbered. *)
InvokeInv ==
  \A t \in Invoker : Invoking(t) =>
    /\ calling[t].call = invocations
    /\ invocations # 0
    /\ \A u \in Invoker : Invoking(u) => u = t

(* A response on its way, or read, is that of the current call unless it   *)
(* is doubted, and there is one of it.                                     *)
ResponseInv ==
  /\ underWay \subseteq 1..invocations
  /\ {got, rpcResponse} \subseteq 0..invocations
  /\ \A x \in underWay \cup ({got} \ {0}) :
       Doubted(x) \/ (x = invocations /\ \E t \in Invoker : Invoking(t))
  /\ \A t \in Invoker : Invoking(t) =>
       rpcResponse \in {0, invocations} \/ Doubted(rpcResponse)
  /\ \A t \in Invoker : Invoking(t) /\ ~Doubted(invocations) =>
       /\ calling[t].pc = "send" =>
            invocations \notin underWay \cup {got, rpcResponse}
       /\ invocations \in underWay => invocations \notin {got, rpcResponse}
       /\ got = invocations => rpcResponse # invocations

GatewayInv == GatewayTypeOK /\ InvokeInv /\ ResponseInv /\ AnswerIsOwn

(* A stick that is in was put in.  One thread initialises at a time, while *)
(* the interface counts as not initialised or is stopped, and what it has  *)
(* read so far is the address of the stick that is open, unless a command  *)
(* has changed that and not read it back.                                  *)
UsbAddressInv ==
  /\ AddressIsOwn
  /\ inits["caller"] = "start" =>
       usbStopped /\ ~complete /\ listener = "none" /\ inits["thread"] = "idle"
  /\ \A t, u \in Initialiser : {inits[t], inits[u]} \subseteq Running => t = u
  /\ \A t \in Initialiser : inits[t] \in Running => ~complete \/ usbStopped
  /\ \A t \in Initialiser :
       inits[t] \in {"info", "force"} /\ ~usbStopped /\ ~Unchecked =>
         usbAddress = base[handle]

UsbInv == UsbTypeOK /\ (inside => plugged # 0) /\ UsbAddressInv

(* A module that is being initialised is known.                            *)

HgdcInv == HgdcTypeOK /\ (updater \in {"init", "initAgain"} => hg.exists)

InterfaceInv == type \in Type /\ UsbInv /\ GatewayInv /\ HgdcInv

-----------------------------------------------------------------------------
(* A gateway.                                                              *)

LEMMA GatewayTypeStep ==
  ASSUME GatewayInv, GatewayNext
  PROVE  GatewayTypeOK'
<1> USE GatewayAssumption DEF GatewayInv, GatewayTypeOK, Call, NotCalling, Invoker
<1>1. CASE GoOnline \/ GoOffline \/ BecomeSteady
  BY <1>1 DEF GoOnline, GoOffline, BecomeSteady, netVars, callVars
<1>2. CASE Reads
  <2>1. CASE Open
    BY <2>1 DEF Open, callVars
  <2>2. CASE StartInit
    BY <2>2 DEF StartInit, netVars
  <2>3. CASE Lost
    BY <2>3 DEF Lost, callVars
  <2>4. CASE Throw
    BY <2>4 DEF Throw, callVars
  <2>5. CASE Receive
    BY <2>5 DEF Receive, callVars, netVars
  <2>6. CASE Store
    BY <2>6 DEF Store, netVars
  <2> QED BY <1>2, <2>1, <2>2, <2>3, <2>4, <2>5, <2>6 DEF Reads
<1>3. CASE SendPacket
  BY <1>3 DEF SendPacket, netVars
<1>4. ASSUME NEW t \in Invoker, Invokes(t) PROVE GatewayTypeOK'
  <2>0. calling[t].call \in 0..MaxInvocations
    OBVIOUS
  <2>1. CASE BeginCall(t)
    <3>1. invocations' \in 0..MaxInvocations
      BY <2>1 DEF BeginCall
    <3> QED BY <2>1, <3>1 DEF BeginCall, netVars
  <2>2. CASE Send(t)
    BY <2>2 DEF Send, netVars
  <2>3. CASE SendThrows(t)
    <3>1. /\ connected' \in BOOLEAN
          /\ underWay' \subseteq 0..MaxInvocations
          /\ doubtful' \subseteq 0..MaxInvocations
      BY <2>0, <2>3 DEF SendThrows
    <3>2. calling' \in
            {calling, [calling EXCEPT ![t].pc = "wait"],
             [calling EXCEPT ![t] = NotCalling]}
      BY <2>3 DEF SendThrows
    <3>3. calling' \in
            [Invoker -> [pc : {"idle", "lock", "send", "wait"},
                         call : 0..MaxInvocations]]
      BY <3>2
    <3> QED
      BY <2>3, <3>1, <3>3 DEF SendThrows
  <2>4. CASE Answered(t)
    <3>1. <<calling[t].call, rpcResponse>> \in Call \X Call
      BY <2>0
    <3>2. answers' \subseteq Call \X Call
      BY <2>4, <3>1 DEF Answered
    <3>3. calling' \in
            [Invoker -> [pc : {"idle", "lock", "send", "wait"}, call : Call]]
      BY <2>4 DEF Answered, EndCall
    <3>4. /\ waiting' = FALSE
          /\ UNCHANGED <<online, steady, connected, gwStopped, reader, got,
                         underWay, rpcResponse, invocations, doubtful>>
      BY <2>4 DEF Answered, EndCall, netVars
    <3>5. {online, steady, connected, gwStopped, waiting}' \subseteq BOOLEAN
      BY <3>4
    <3>6. /\ {got, rpcResponse, invocations}' \subseteq Call
          /\ underWay' \subseteq Call /\ doubtful' \subseteq Call
          /\ reader' \in {"open", "join", "read", "store"}
      BY <3>4
    <3> HIDE DEF Call, Invoker, NotCalling, GatewayInv
    <3> QED
      BY <3>2, <3>3, <3>5, <3>6
  <2>5. CASE GiveUpCall(t)
    <3>1. calling' \in
            [Invoker -> [pc : {"idle", "lock", "send", "wait"}, call : Call]]
      BY <2>5 DEF GiveUpCall, EndCall
    <3>2. doubtful' \subseteq Call
      BY <2>0, <2>5 DEF GiveUpCall
    <3>3. waiting' = FALSE
      BY <2>5 DEF GiveUpCall, EndCall
    <3> QED
      BY <2>5, <3>1, <3>2, <3>3 DEF GiveUpCall, netVars
  <2>6. CASE Forget(t)
    BY <2>6 DEF Forget, netVars
  <2> QED BY <1>4, <2>1, <2>2, <2>3, <2>4, <2>5, <2>6 DEF Invokes
<1> QED
  BY <1>1, <1>2, <1>3, <1>4 DEF GatewayNext

LEMMA InvokeStep ==
  ASSUME GatewayInv, GatewayNext
  PROVE  InvokeInv'
<1> USE GatewayAssumption
    DEF GatewayInv, GatewayTypeOK, Call, NotCalling, InvokeInv, Invoking
<1>1. CASE GoOnline \/ GoOffline \/ BecomeSteady
  BY <1>1 DEF GoOnline, GoOffline, BecomeSteady, callVars
<1>2. CASE Reads
  <2>1. CASE StartInit
    <3>1. \A u \in Invoker : /\ calling'[u].call = calling[u].call
                            /\ Invoking(u)' <=> Invoking(u)
      BY <2>1 DEF StartInit, Invoker
    <3> QED
      BY <2>1, <3>1 DEF StartInit
  <2>2. CASE Open \/ Lost \/ Throw \/ Receive \/ Store
    BY <2>2 DEF Open, Lost, Throw, Receive, Store, callVars
  <2> QED
    BY <1>2, <2>1, <2>2 DEF Reads
<1>3. CASE SendPacket
  <2>1. \A u \in Invoker : /\ calling'[u].call = calling[u].call
                          /\ Invoking(u)' <=> Invoking(u)
    BY <1>3 DEF SendPacket, Invoker
  <2> QED
    BY <1>3, <2>1 DEF SendPacket
<1>4. ASSUME NEW t \in Invoker, Invokes(t) PROVE InvokeInv'
  <2>1. CASE BeginCall(t)
    <3>1. \A u \in Invoker \ {t} : ~Invoking(u)'
      BY <2>1 DEF BeginCall
    <3>2. calling'[t].call = invocations' /\ invocations' # 0
      BY <2>1 DEF BeginCall
    <3> QED
      BY <3>1, <3>2
  <2>2. CASE Send(t) \/ SendThrows(t)
    <3>1. /\ Invoking(t)
          /\ invocations' = invocations
          /\ calling' \in {calling, [calling EXCEPT ![t].pc = "wait"],
                           [calling EXCEPT ![t] = NotCalling]}
      BY <2>2 DEF Send, SendThrows
    <3>2. \A u \in Invoker \ {t} : ~Invoking(u)'
      BY <3>1
    <3>3. Invoking(t)' => calling'[t].call = calling[t].call
      BY <3>1
    <3> QED
      BY <3>1, <3>2, <3>3
  <2>3. CASE Answered(t) \/ GiveUpCall(t) \/ Forget(t)
    <3>1. /\ invocations' = invocations
          /\ calling' = [calling EXCEPT ![t] = NotCalling]
      BY <2>3 DEF Answered, GiveUpCall, Forget, EndCall
    <3>2. \A u \in Invoker : Invoking(u)' => u # t /\ calling'[u] = calling[u]
      BY <3>1
    <3> QED
      BY <3>1, <3>2
  <2> QED
    BY <1>4, <2>1, <2>2, <2>3 DEF Invokes
<1> QED
  BY <1>1, <1>2, <1>3, <1>4 DEF GatewayNext

(* A step that starts and ends no call, sends nothing and brings nothing.  *)
LEMMA NoResponse ==
  ASSUME GatewayInv, underWay' \subseteq underWay,
         UNCHANGED <<got, rpcResponse, invocations, doubtful>>,
         \A u \in Invoker :
           /\ calling'[u].pc \in {"send", "wait"} <=> Invoking(u)
           /\ calling'[u].pc = "send" <=> calling[u].pc = "send"
  PROVE  ResponseInv'
<1> USE DEF GatewayInv, ResponseInv, Doubted, Invoking
<1>1. /\ underWay' \subseteq 1..invocations'
      /\ {got', rpcResponse'} \subseteq 0..invocations'
  OBVIOUS
<1>2. ASSUME NEW x \in underWay' \cup ({got'} \ {0})
      PROVE  \/ \E d \in doubtful' : d <= x
             \/ /\ x = invocations'
                /\ \E t \in Invoker : calling'[t].pc \in {"send", "wait"}
  BY <1>2
<1>3. ASSUME NEW t \in Invoker, calling'[t].pc \in {"send", "wait"}
      PROVE  \/ rpcResponse' \in {0, invocations'}
             \/ \E d \in doubtful' : d <= rpcResponse'
  BY <1>3
<1>4. ASSUME NEW t \in Invoker, calling'[t].pc \in {"send", "wait"},
             ~\E d \in doubtful' : d <= invocations'
      PROVE  /\ calling'[t].pc = "send" =>
                  invocations' \notin underWay' \cup {got', rpcResponse'}
             /\ invocations' \in underWay' =>
                  invocations' \notin {got', rpcResponse'}
             /\ got' = invocations' => rpcResponse' # invocations'
  BY <1>4
<1> QED
  BY <1>1, <1>2, <1>3, <1>4

LEMMA ReadStep ==
  ASSUME GatewayInv, Reads
  PROVE  ResponseInv'
<1> USE DEF GatewayInv, GatewayTypeOK, Call, Invoker
<1>1. CASE Open \/ Lost \/ Throw
  BY <1>1, NoResponse DEF Open, Lost, Throw, callVars, Invoking
<1>2. CASE StartInit
  <2>1. \A u \in Invoker :
          /\ calling'[u].pc \in {"send", "wait"} <=> Invoking(u)
          /\ calling'[u].pc = "send" <=> calling[u].pc = "send"
    BY <1>2 DEF StartInit, Invoking
  <2> QED
    BY <1>2, <2>1, NoResponse DEF StartInit
<1>3. CASE Receive
  <2>1. PICK c \in underWay :
          /\ underWay' = underWay \ {c}
          /\ got' = got \/ got' = c
    BY <1>3 DEF Receive
  <2>2. UNCHANGED <<calling, rpcResponse, invocations, doubtful>>
    BY <1>3 DEF Receive, callVars
  <2> QED
    BY <2>1, <2>2 DEF ResponseInv, Doubted, Invoking
<1>4. CASE Store
  <2>1. /\ rpcResponse' = got /\ got' = 0
        /\ UNCHANGED <<calling, underWay, invocations, doubtful>>
        /\ \A t \in Invoker : calling[t].pc # "send"
    BY <1>4 DEF Store
  <2> QED
    BY <2>1 DEF ResponseInv, Doubted, Invoking, InvokeInv
<1> QED
  BY <1>1, <1>2, <1>3, <1>4 DEF Reads

LEMMA InvokesStep ==
  ASSUME GatewayInv, NEW t \in Invoker, Invokes(t)
  PROVE  ResponseInv'
<1> USE DEF GatewayInv, GatewayTypeOK, Call, NotCalling, Invoking
<1>1. CASE BeginCall(t)
  <2>1. /\ \A u \in Invoker : ~Invoking(u)
        /\ invocations' = invocations + 1
        /\ rpcResponse' = 0
        /\ UNCHANGED <<underWay, got, doubtful>>
    BY <1>1 DEF BeginCall
  <2>2. \A x \in underWay \cup {got} : x <= invocations /\ x # invocations'
    BY <2>1 DEF ResponseInv
  <2> QED
    BY <2>1, <2>2 DEF ResponseInv, Doubted
<1>2. CASE Send(t)
  <2>1. /\ calling[t].pc = "send" /\ calling[t].call = invocations
        /\ invocations # 0
        /\ underWay' = underWay \cup {invocations}
        /\ \A u \in Invoker : Invoking(u) => u = t
        /\ calling' = [calling EXCEPT ![t].pc = "wait"]
        /\ UNCHANGED <<got, rpcResponse, invocations, doubtful>>
    BY <1>2 DEF Send, InvokeInv
  <2>2. /\ calling'[t].pc = "wait"
        /\ \A u \in Invoker : calling'[u].pc \in {"send", "wait"} => u = t
    BY <2>1
  <2> QED
    BY <2>1, <2>2 DEF ResponseInv, Doubted
<1>3. CASE SendThrows(t)
  <2>1. /\ calling[t].call = invocations
        /\ doubtful' = doubtful \cup {invocations}
        /\ UNCHANGED <<got, rpcResponse, invocations>>
        /\ underWay' \subseteq underWay \cup {invocations}
        /\ invocations # 0
    BY <1>3 DEF SendThrows, InvokeInv
  <2>2. \A x \in 0..invocations : x = invocations \/ Doubted(x) =>
          \E d \in doubtful' : d <= x
    BY <2>1 DEF Doubted
  <2>3. /\ underWay' \subseteq 1..invocations'
        /\ {got', rpcResponse'} \subseteq 0..invocations'
    BY <2>1 DEF ResponseInv
  <2>4. \A x \in underWay' \cup ({got'} \ {0}) : \E d \in doubtful' : d <= x
    BY <2>1, <2>2, <2>3 DEF ResponseInv
  <2>5. \/ rpcResponse' \in {0, invocations'}
        \/ \E d \in doubtful' : d <= rpcResponse'
    <3>1. Invoking(t)
      BY <1>3 DEF SendThrows
    <3> QED
      BY <2>1, <2>2, <2>3, <3>1 DEF ResponseInv
  <2>6. \E d \in doubtful' : d <= invocations'
    BY <2>1
  <2> QED
    BY <2>3, <2>4, <2>5, <2>6 DEF ResponseInv, Doubted
<1>4. CASE Answered(t) \/ GiveUpCall(t)
  <2>1. /\ Invoking(t) /\ calling[t].call = invocations /\ calling[t].pc = "wait"
        /\ \A u \in Invoker : Invoking(u) => u = t
        /\ calling' = [calling EXCEPT ![t] = NotCalling]
        /\ UNCHANGED <<got, underWay, rpcResponse, invocations>>
        /\ doubtful \subseteq doubtful'
    BY <1>4 DEF Answered, GiveUpCall, EndCall, InvokeInv
  <2>2. \A u \in Invoker : calling'[u].pc \notin {"send", "wait"}
    BY <2>1
  <2>3. rpcResponse = invocations \/ Doubted(rpcResponse) \/ invocations \in doubtful'
    BY <1>4, <2>1 DEF Answered, GiveUpCall, ResponseInv
  <2>4. ASSUME NEW x \in underWay \cup ({got} \ {0})
        PROVE  \E d \in doubtful' : d <= x
    <3>1. CASE Doubted(x)
      BY <2>1, <3>1 DEF Doubted
    <3>2. CASE x = invocations
      <4>1. x \in 0..invocations
        BY <3>2
      <4>2. CASE invocations \in doubtful'
        BY <3>2, <4>2
      <4>3. CASE Doubted(rpcResponse)
        BY <2>1, <3>2, <4>3 DEF ResponseInv, Doubted
      <4>4. CASE rpcResponse = invocations
        BY <2>1, <3>2, <4>4 DEF ResponseInv, Doubted
      <4> QED
        BY <2>3, <4>2, <4>3, <4>4
    <3> QED
      BY <3>1, <3>2 DEF ResponseInv
  <2> QED
    BY <2>1, <2>2, <2>4 DEF ResponseInv, Doubted
<1>6. CASE Forget(t)
  <2>1. \A u \in Invoker :
          /\ calling'[u].pc \in {"send", "wait"} <=> Invoking(u)
          /\ calling'[u].pc = "send" <=> calling[u].pc = "send"
    BY <1>6 DEF Forget
  <2> QED
    BY <1>6, <2>1, NoResponse DEF Forget
<1> QED
  BY <1>1, <1>2, <1>3, <1>4, <1>6 DEF Invokes

LEMMA ResponseStep ==
  ASSUME GatewayInv, GatewayNext
  PROVE  ResponseInv'
<1>1. CASE GoOnline \/ GoOffline \/ BecomeSteady
  BY <1>1, NoResponse DEF GoOnline, GoOffline, BecomeSteady, callVars, Invoking
<1>2. CASE SendPacket
  <2>1. \A u \in Invoker :
          /\ calling'[u].pc \in {"send", "wait"} <=> Invoking(u)
          /\ calling'[u].pc = "send" <=> calling[u].pc = "send"
    BY <1>2 DEF SendPacket, Invoking, GatewayInv, GatewayTypeOK, Invoker
  <2> QED
    BY <1>2, <2>1, NoResponse DEF SendPacket
<1> QED
  BY <1>1, <1>2, ReadStep, InvokesStep DEF GatewayNext

(* The answer of the current call is doubted, or is its own.               *)
LEMMA AnswerStep ==
  ASSUME GatewayInv, GatewayNext
  PROVE  AnswerIsOwn'
<1>1. doubtful \subseteq doubtful'
  BY DEF GatewayNext, GoOnline, GoOffline, BecomeSteady, Reads, Open, StartInit,
         Lost, Throw, Receive, Store, SendPacket, Invokes, BeginCall, Send,
         SendThrows, Answered, GiveUpCall, Forget, callVars
<1>2. CASE \E t \in Invoker : Answered(t)
  <2>1. PICK t \in Invoker : Answered(t)
    BY <1>2
  <2>2. /\ answers' = answers \cup {<<invocations, rpcResponse>>}
        /\ Invoking(t) /\ rpcResponse # 0
    BY <2>1 DEF Answered, GatewayInv, InvokeInv, Invoking
  <2>3. /\ rpcResponse \in 0..invocations
        /\ rpcResponse = invocations \/ \E d \in doubtful : d <= rpcResponse
    BY <2>2 DEF GatewayInv, ResponseInv, Doubted
  <2>4. invocations \in Nat
    BY GatewayAssumption DEF GatewayInv, GatewayTypeOK, Call
  <2>5. \A a \in answers : a[1] # a[2] =>
          a[2] < a[1] /\ \E d \in doubtful : d <= a[2]
    BY DEF GatewayInv, AnswerIsOwn
  <2>6. ASSUME NEW a \in answers', a[1] # a[2]
        PROVE  a[2] < a[1] /\ \E d \in doubtful' : d <= a[2]
    <3>1. CASE a \in answers
      BY <1>1, <2>5, <2>6, <3>1
    <3>2. CASE a = <<invocations, rpcResponse>>
      <4>1. a[1] = invocations /\ a[2] = rpcResponse
        BY <3>2
      <4> QED
        BY <1>1, <2>3, <2>4, <2>6, <4>1
    <3> QED
      BY <2>2, <3>1, <3>2
  <2> QED
    BY <2>6 DEF AnswerIsOwn
<1>3. CASE ~\E t \in Invoker : Answered(t)
  <2>1. answers' = answers
    BY <1>3 DEF GatewayNext, GoOnline, GoOffline, BecomeSteady, Reads, Open,
         StartInit, Lost, Throw, Receive, Store, SendPacket, Invokes, BeginCall,
         Send, SendThrows, GiveUpCall, Forget, callVars
  <2> QED
    BY <1>1, <2>1 DEF GatewayInv, AnswerIsOwn
<1> QED
  BY <1>2, <1>3

-----------------------------------------------------------------------------
(* A stick, and a module.                                                  *)

(* The invariant in parts: what is Boolean, and the other types.           *)
UsbFlags == {inside, settled, force, usbStopped, quit, complete} \subseteq BOOLEAN

UsbRest ==
  /\ plugged \in 0..MaxSticks
  /\ handle \in 0..MaxSticks
  /\ usbAddress \in Base
  /\ changes \in [1..MaxSticks -> 0..MaxChanges]
  /\ base \in [1..MaxSticks -> Base]
  /\ listener \in {"none", "read", "sleep"}
  /\ inits \in [Asker -> Running \cup {"idle", "start", "refused"}]
  /\ inside => plugged # 0

LEMMA UsbParts == UsbInv <=> UsbFlags /\ UsbRest /\ UsbAddressInv
  BY DEF UsbInv, UsbTypeOK, UsbFlags, UsbRest

LEMMA UsbFlagStep ==
  ASSUME UsbFlags, UsbNext
  PROVE  UsbFlags'
<1> USE DEF UsbFlags
<1>1. CASE Plug \/ Unplug \/ Settle
  BY <1>1 DEF Plug, Unplug, Settle, stateVars
<1>2. CASE StartListening \/ AskToStop
  BY <1>2 DEF StartListening, AskToStop, stickVars
<1>3. CASE UsbListens
  BY <1>3 DEF UsbListens, ReadFails, Close, Reconnect, OpenAgain, StopReading,
              StopListening, stickVars, stateVars
<1>4. ASSUME NEW t \in Asker, Asks(t) PROVE UsbFlags'
  BY <1>4 DEF Asks, AskAddress, AskInfo, AskDutyCycle, SetAddress, AskInVain,
              Proceed, GiveUp, stickVars, stateVars
<1>5. CASE Command \/ Refused
  BY <1>5 DEF Command, Refused, stickVars, stateVars
<1> QED
  BY <1>1, <1>2, <1>3, <1>4, <1>5 DEF UsbNext

LEMMA UsbRestStep ==
  ASSUME UsbRest, UsbNext
  PROVE  UsbRest'
<1> USE Usb300Assumption DEF UsbRest, Initialiser, Asker, Running, Base
<1>1. CASE Plug
  BY <1>1 DEF Plug, stateVars
<1>2. CASE Unplug \/ Settle
  BY <1>2 DEF Unplug, Settle, stateVars
<1>3. CASE StartListening \/ AskToStop
  <2>1. CASE StartListening
    <3>1. inits' \in [Asker -> Running \cup {"idle", "start", "refused"}]
      BY <2>1 DEF StartListening
    <3> QED
      BY <2>1, <3>1 DEF StartListening, stickVars
  <2>2. CASE AskToStop
    BY <2>2 DEF AskToStop, stickVars
  <2> QED
    BY <1>3, <2>1, <2>2
<1>5. CASE UsbListens
  <2>1. CASE Reconnect
    <3>1. inits' \in [Asker -> Running \cup {"idle", "start", "refused"}]
      BY <2>1 DEF Reconnect, OpenAgain
    <3> QED
      BY <2>1, <3>1 DEF Reconnect, OpenAgain, stickVars
  <2>2. CASE ReadFails
    BY <2>2 DEF ReadFails, stickVars
  <2>3. CASE Close
    BY <2>3 DEF Close, stickVars
  <2>4. CASE StopReading
    BY <2>4 DEF StopReading, stickVars, stateVars
  <2>5. CASE StopListening
    BY <2>5 DEF StopListening, stickVars
  <2> QED
    BY <1>5, <2>1, <2>2, <2>3, <2>4, <2>5 DEF UsbListens
<1>4. ASSUME NEW t \in Asker, Asks(t) PROVE UsbRest'
  <2>1. CASE AskAddress(t)
    BY <2>1 DEF AskAddress, CanAnswer, Attached, Proceed, stickVars
  <2>2. CASE AskInfo(t)
    BY <2>2 DEF AskInfo, Proceed, stickVars
  <2>3. CASE SetAddress(t)
    <3>1. handle \in 1..MaxSticks
      BY <2>3 DEF SetAddress, CanAnswer, Attached
    <3>2. /\ changes' \in [1..MaxSticks -> 0..MaxChanges]
          /\ base' \in [1..MaxSticks -> Base]
      BY <2>3, <3>1 DEF SetAddress, Forced, Commanded
    <3>3. inits' \in [Asker -> Running \cup {"idle", "start", "refused"}]
      BY <2>3 DEF SetAddress, Proceed, GiveUp
    <3> QED
      BY <2>3, <3>2, <3>3 DEF SetAddress
  <2>4. CASE AskInVain(t)
    BY <2>4 DEF AskInVain, GiveUp, stickVars
  <2>5. CASE t = "command" /\ AskDutyCycle
    BY <2>5 DEF AskDutyCycle, stickVars, stateVars
  <2> QED
    BY <1>4, <2>1, <2>2, <2>3, <2>4, <2>5 DEF Asks
<1>6. CASE Command \/ Refused
  BY <1>6 DEF Command, Refused, stickVars, stateVars
<1> QED
  BY <1>1, <1>2, <1>3, <1>4, <1>5, <1>6 DEF UsbNext

(* While a thread initialises a stick, the other does not, and the         *)
(* interface does not count as initialised.                                *)
LEMMA UsbAddressStep ==
  ASSUME UsbRest, UsbAddressInv, UsbNext
  PROVE  UsbAddressInv'
<1> USE DEF UsbRest, UsbAddressInv, AddressIsOwn, Initialiser, Asker, Running,
            Unchecked
<1>1. CASE Plug \/ Unplug \/ Settle \/ AskToStop
  <2>1. UNCHANGED <<base, handle, usbStopped, complete, usbAddress, listener, inits>>
    BY <1>1 DEF Plug, Unplug, Settle, AskToStop, stateVars, stickVars
  <2> QED
    BY <2>1
<1>2. CASE StartListening
  BY <1>2 DEF StartListening, stickVars
<1>3. CASE UsbListens
  <2>1. CASE Reconnect
    BY <2>1 DEF Reconnect, OpenAgain, Outlasted, stickVars
  <2>2. CASE ReadFails
    BY <2>2 DEF ReadFails, stickVars
  <2>3. CASE Close
    BY <2>3 DEF Close, stickVars
  <2>4. CASE StopReading
    BY <2>4 DEF StopReading, stickVars, stateVars
  <2>5. CASE StopListening
    BY <2>5 DEF StopListening, stickVars
  <2> QED
    BY <1>3, <2>1, <2>2, <2>3, <2>4, <2>5 DEF UsbListens
<1>4. ASSUME NEW t \in Asker, Asks(t) PROVE UsbAddressInv'
  <2>1. CASE AskAddress(t)
    BY <2>1 DEF AskAddress, CanAnswer, Attached, Proceed, stickVars
  <2>2. CASE AskInfo(t)
    BY <2>2 DEF AskInfo, CanAnswer, Attached, Proceed, stickVars
  <2>3. CASE SetAddress(t)
    BY <2>3 DEF SetAddress, CanAnswer, Attached, Proceed, GiveUp
  <2>4. CASE AskInVain(t)
    <3>1. UNCHANGED <<base, handle, usbAddress, listener>>
      BY <2>4 DEF AskInVain, stickVars
    <3>2. CASE t = "command"
      <4>1. /\ \A u \in Initialiser : inits'[u] = inits[u]
            /\ Unchecked'
            /\ usbStopped' = usbStopped
            /\ complete' <=> complete
        BY <2>4, <3>2 DEF AskInVain, GiveUp
      <4> QED
        BY <3>1, <4>1
    <3>3. CASE t \in Initialiser
      <4>1. usbStopped' = TRUE /\ inits' = [inits EXCEPT ![t] = "idle"]
        BY <2>4, <3>3 DEF AskInVain, GiveUp
      <4>2. inits["caller"] # "start"
        BY <2>4, <3>3 DEF AskInVain
      <4> QED
        BY <3>1, <3>3, <4>1, <4>2
    <3> QED
      BY <3>2, <3>3
  <2>5. CASE t = "command" /\ AskDutyCycle
    <3>1. UNCHANGED <<base, handle, usbAddress, usbStopped, complete, listener>>
      BY <2>5 DEF AskDutyCycle, stickVars, stateVars
    <3>2. (\A u \in Initialiser : inits'[u] = inits[u]) /\ ~Unchecked
      BY <2>5 DEF AskDutyCycle
    <3> QED
      BY <3>1, <3>2
  <2> QED
    BY <1>4, <2>1, <2>2, <2>3, <2>4, <2>5 DEF Asks
<1>5. CASE Command \/ Refused
  <2>1. UNCHANGED <<base, handle, usbAddress, complete, listener>>
    BY <1>5 DEF Command, Refused, stickVars, stateVars
  <2>2. \A u \in Initialiser : inits'[u] = inits[u]
    BY <1>5 DEF Command, Refused
  <2>3. \/ usbStopped' = TRUE
        \/ usbStopped' = usbStopped /\ ~Unchecked
    BY <1>5 DEF Command, Refused, stateVars
  <2> QED
    BY <2>1, <2>2, <2>3
<1> QED
  BY <1>1, <1>2, <1>3, <1>4, <1>5 DEF UsbNext

LEMMA UsbStep ==
  ASSUME UsbInv, UsbNext \/ UNCHANGED usbVars
  PROVE  UsbInv'
<1>1. UsbInv' <=> UsbFlags' /\ UsbRest' /\ UsbAddressInv'
  BY UsbParts, PTL
<1>2. CASE UsbNext
  BY <1>1, <1>2, UsbParts, UsbFlagStep, UsbRestStep, UsbAddressStep
<1>3. CASE UNCHANGED usbVars
  BY <1>3 DEF UsbInv, UsbTypeOK, UsbAddressInv, AddressIsOwn, Unchecked, usbVars,
              stickVars, stateVars, Running
<1> QED
  BY <1>2, <1>3

(* What a handled report, a search and a command make of an interface.     *)
LEMMA HgdcChanges ==
  ASSUME NEW h \in Hgdcs
  PROVE  /\ [h EXCEPT !.stopped = TRUE] \in Hgdcs
         /\ [h EXCEPT !.complete = FALSE] \in Hgdcs
         /\ [h EXCEPT !.complete = TRUE] \in Hgdcs
         /\ [h EXCEPT !.address = TRUE] \in Hgdcs
         /\ [h EXCEPT !.complete = TRUE, !.address = TRUE] \in Hgdcs
         /\ [h EXCEPT !.exists = TRUE, !.stopped = FALSE, !.complete = FALSE] \in Hgdcs
  BY DEF Hgdcs

LEMMA HgdcAddressNotSet ==
  ASSUME NEW h \in Hgdcs, NEW g \in AddressNotSet(h)
  PROVE  g \in Hgdcs /\ g.exists = h.exists /\ g.complete = h.complete
  BY DEF AddressNotSet, Hgdcs

LEMMA HgdcStep ==
  ASSUME HgdcInv, HgdcNext
  PROVE  HgdcInv'
<1> USE DEF HgdcInv, HgdcTypeOK
<1>1. CASE Added \/ Removed \/ Restarted \/ Reconnected \/ Lasts
  BY <1>1 DEF Added, Removed, Restarted, Reconnected, Lasts, Report
<1>2. CASE TakeReport
  <2>1. /\ hg' \in {hg, [hg EXCEPT !.stopped = TRUE], [hg EXCEPT !.complete = FALSE],
                   [hg EXCEPT !.exists = TRUE, !.stopped = FALSE, !.complete = FALSE]}
        /\ updater' \in {"init", "reset"}
        /\ failed' \in {failed, FALSE}
    BY <1>2 DEF TakeReport, Removal, Restart, Listen
  <2>2. hg' \in Hgdcs
    BY <2>1, HgdcChanges
  <2>3. /\ updater' = "init" => hg'.exists
        /\ ~hg'.exists => hg'.stopped /\ ~hg'.complete
    BY <1>2 DEF TakeReport, Removal, Restart, Listen, Hgdcs
  <2> QED
    BY <1>2, <2>1, <2>2, <2>3 DEF TakeReport, Handled
<1>3. CASE Initialise
  <2>1. /\ hg' \in Hgdcs
        /\ hg'.exists
    <3>1. [hg EXCEPT !.complete = TRUE] \in Hgdcs /\ [hg EXCEPT !.complete = TRUE].exists
      BY <1>3 DEF Initialise, Hgdcs
    <3>2. CASE hg' \in AddressNotSet([hg EXCEPT !.complete = TRUE])
      BY <3>1, <3>2, HgdcAddressNotSet
    <3>3. CASE hg' \in {[hg EXCEPT !.complete = TRUE], [hg EXCEPT !.stopped = TRUE],
                        [hg EXCEPT !.complete = TRUE, !.address = TRUE]}
      BY <1>3, <3>3 DEF Initialise, Hgdcs
    <3> QED
      BY <1>3, <3>2, <3>3 DEF Initialise, Initialised
  <2>2. failed' \in {FALSE, TRUE} \/ failed' = (failed /\ hg.stopped)
    BY <1>3 DEF Initialise, Initialised
  <2>3. failed' \in BOOLEAN
    BY <2>2
  <2> QED
    BY <1>3, <2>1, <2>3 DEF Initialise
<1>4. CASE Reset
  BY <1>4 DEF Reset
<1>5. CASE LookAgain
  <2>1. /\ hg' \in {hg, [hg EXCEPT !.complete = FALSE],
                   [hg EXCEPT !.exists = TRUE, !.stopped = FALSE, !.complete = FALSE]}
        /\ updater' \in {"idle", "initAgain"}
        /\ failed' \in {failed, FALSE}
    BY <1>5 DEF LookAgain, Listen
  <2>2. hg' \in Hgdcs
    BY <2>1, HgdcChanges
  <2>3. /\ updater' = "initAgain" => hg'.exists
        /\ ~hg'.exists => hg'.stopped /\ ~hg'.complete
    BY <1>5 DEF LookAgain, Listen, Hgdcs
  <2> QED
    BY <1>5, <2>1, <2>2, <2>3 DEF LookAgain
<1>6. CASE HgdcCommand
  <2>1. hg' = [hg EXCEPT !.address = TRUE] \/ hg' \in AddressNotSet(hg)
    BY <1>6 DEF HgdcCommand
  <2>2. hg' \in Hgdcs /\ hg'.exists
    BY <1>6, <2>1, HgdcAddressNotSet DEF HgdcCommand, Hgdcs
  <2>3. failed' \in {failed, TRUE}
    BY <1>6 DEF HgdcCommand
  <2> QED
    BY <1>6, <2>2, <2>3 DEF HgdcCommand
<1> QED
  BY <1>1, <1>2, <1>3, <1>4, <1>5, <1>6 DEF HgdcNext, Updates

-----------------------------------------------------------------------------
(* The invariant, for any number of sticks and calls: one call and one     *)
(* initialisation at a time, and where the responses of a gateway are.     *)
(* The types of interfaces do not touch each other.                        *)
THEOREM InterfaceInvariance == InterfaceSpec => []InterfaceInv
<1>1. InterfaceInit => InterfaceInv
  <2> SUFFICES ASSUME InterfaceInit PROVE InterfaceInv
    OBVIOUS
  <2>1. UsbInv
    <3>1. UsbFlags
      BY DEF InterfaceInit, UsbInit, UsbFlags
    <3>2. UsbRest
      BY Usb300Assumption
      DEF InterfaceInit, UsbInit, UsbRest, Initialiser, Asker, Running, Base
    <3>3. UsbAddressInv
      BY DEF InterfaceInit, UsbInit, UsbAddressInv, AddressIsOwn, Initialiser, Asker,
             Running
    <3> QED
      BY <3>1, <3>2, <3>3, UsbParts
  <2>2. GatewayTypeOK
    <3>1. {online, steady, connected, gwStopped, waiting} \subseteq BOOLEAN
      BY DEF InterfaceInit, GatewayInit
    <3>2. /\ {got, rpcResponse, invocations} \subseteq Call
          /\ calling \in
               [Invoker -> [pc : {"idle", "lock", "send", "wait"}, call : Call]]
      BY GatewayAssumption DEF InterfaceInit, GatewayInit, Call, NotCalling
    <3> QED
      BY <3>1, <3>2 DEF InterfaceInit, GatewayInit, GatewayTypeOK
  <2>3. InvokeInv /\ ResponseInv /\ AnswerIsOwn
    BY DEF InterfaceInit, GatewayInit, NotCalling, InvokeInv, ResponseInv,
           AnswerIsOwn, Invoking
  <2>4. HgdcInv
    BY DEF InterfaceInit, HgdcInit, HgdcInv, HgdcTypeOK, Hgdcs
  <2> QED
    BY <2>1, <2>2, <2>3, <2>4 DEF InterfaceInit, InterfaceInv, GatewayInv
<1>2. InterfaceInv /\ [InterfaceNext]_interfaceVars => InterfaceInv'
  <2> SUFFICES ASSUME InterfaceInv, [InterfaceNext]_interfaceVars
               PROVE  InterfaceInv'
    OBVIOUS
  <2>1. UsbNext \/ UNCHANGED usbVars
    BY DEF InterfaceNext, Of, interfaceVars, usbVars, stickVars, stateVars
  <2>2. GatewayNext \/ UNCHANGED gatewayVars
    BY DEF InterfaceNext, Of, interfaceVars, gatewayVars, netVars, callVars
  <2>3. HgdcNext \/ UNCHANGED hgdcVars
    BY DEF InterfaceNext, Of, interfaceVars, hgdcVars
  <2>4. type' = type
    BY DEF InterfaceNext, Of, interfaceVars
  <2>5. UsbInv'
    BY <2>1, UsbStep DEF InterfaceInv
  <2>6. GatewayInv'
    <3>1. CASE GatewayNext
      BY <3>1, GatewayTypeStep, InvokeStep, ResponseStep, AnswerStep
      DEF InterfaceInv, GatewayInv
    <3>2. CASE UNCHANGED gatewayVars
      BY <3>2 DEF InterfaceInv, GatewayInv, GatewayTypeOK, InvokeInv, ResponseInv,
                  Doubted, Invoking, AnswerIsOwn, gatewayVars, netVars, callVars
    <3> QED
      BY <2>2, <3>1, <3>2
  <2>7. HgdcInv'
    BY <2>3, HgdcStep DEF InterfaceInv, HgdcInv, HgdcTypeOK, hgdcVars
  <2> QED
    BY <2>4, <2>5, <2>6, <2>7 DEF InterfaceInv
<1> QED
  BY <1>1, <1>2, PTL DEF InterfaceSpec

(* The variables of Usb300, HomegearGateway and Hgdc keep their types; a   *)
(* module that is gone is stopped.                                         *)
THEOREM InterfaceTypes == InterfaceSpec => []InterfaceTypeOK
<1>1. InterfaceInv => InterfaceTypeOK
  BY DEF InterfaceInv, UsbInv, GatewayInv, HgdcInv, InterfaceTypeOK
<1> QED
  BY <1>1, InterfaceInvariance, PTL

(* invoke returns the response of its own call until a call was given up   *)
(* or sent twice, whatever happens to the connection in between.           *)
THEOREM InvokeAnswer == InterfaceSpec => []AnswerIsOwn
<1>1. InterfaceInv => AnswerIsOwn
  BY DEF InterfaceInv, GatewayInv
<1> QED
  BY <1>1, InterfaceInvariance, PTL

(* A USB 300 interface that is initialised and open sends with the base    *)
(* address of its stick, over any number of sticks, failures and changes,  *)
(* also while a command asks for something else or has just begun, but not *)
(* while a command has set another address and not read it back.  It rests *)
(* on reconnect's pause outlasting the exchanges under way (Outlasted).    *)
THEOREM OwnAddress == InterfaceSpec => []AddressIsOwn
<1>1. InterfaceInv => AddressIsOwn
  BY DEF InterfaceInv, UsbInv, UsbAddressInv
<1> QED
  BY <1>1, InterfaceInvariance, PTL
=============================================================================
