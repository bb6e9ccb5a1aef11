------------------------- MODULE PeerRequests_proofs -------------------------
(***************************************************************************)
(* Proofs about the commands of a peer that wait for a frame, for any      *)
(* number of callers, interfaces, frames and request objects: the types,   *)
(* that nobody disturbs a synchronous command, that its success means an   *)
(* answer, and that what was answered is not resent.                       *)
(***************************************************************************)
EXTENDS PeerRequests, TLAPS

(* What a caller has done so far: _sendPacketMutex is held from Lock to    *)
(* Return, and the request of a synchronous command exists from Register.  *)
CallerInv ==
  \A c \in Caller :
    /\ pc[c] \notin {"idle", "lock"} <=> sendMutex = c
    /\ pc[c] # "idle" => command[c] \in Command
    /\ pc[c] \in {"idle", "lock", "register"} => mine[c] = None /\ ~signalled[c]
    /\ pc[c] = "register" => command[c].mode # "plain"
    /\ pc[c] \in {"sending", "waiting", "remove"} =>
         mine[c] # None /\ command[c].mode = "sync"
    /\ pc[c] \in {"idle", "lock", "register", "once"} => tries[c] = 0
    /\ pc[c] = "sending" => tries[c] <= Resends
    /\ pc[c] = "once" => ~signalled[c]

(* A receiver has an object from the lookup to the end of the delivery,    *)
(* and the worker's pass is over keys that have one.                       *)
LookupInv ==
  /\ \A x \in Receiver :
       rpc[x] \in {"gate", "deliver"} => found[x] # None /\ key[x] # None
  /\ wpc = "visit" => \A k \in todo : table[k] # None

(* A caller that was notified was notified of an answer.                   *)
SignalInv ==
  \A c \in Caller : signalled[c] /\ mine[c] # None => answered[mine[c]]

(* An object has one key, under which whoever looked it up has found it;   *)
(* an asynchronous request whose answer was processed has none.            *)
KeyInv ==
  /\ \A j, k \in Key : table[j] = table[k] /\ table[j] # None => j = k
  /\ \A x \in Receiver, k \in Key :
       found[x] # None /\ table[k] = found[x] => k = key[x]
  /\ \A k \in Key :
       table[k] # None /\ ~wait[table[k]] => ~answered[table[k]]

IInv ==
  /\ TypeOK
  /\ CallerInv
  /\ LookupInv
  /\ LoopUndisturbed
  /\ SignalInv
  /\ SuccessIsAnswered
  /\ KeyInv

-----------------------------------------------------------------------------
(* A resend is counted only below the limit, in both counts.               *)
LEMMA TypeStep ==
  TypeOK /\ CallerInv /\ LookupInv /\ [Next]_vars => TypeOK'
<1> SUFFICES ASSUME TypeOK, CallerInv, LookupInv, [Next]_vars
             PROVE  TypeOK'
  OBVIOUS
<1> USE RequestsAssumption DEF TypeOK, Command, Key, CallerInv, LookupInv,
   callerVars, requestVars, receiverVars, workerVars
<1>1. ASSUME NEW c \in Caller, NEW m \in Command, Call(c, m) PROVE TypeOK'
  BY <1>1 DEF Call, Goto
<1>2. ASSUME NEW c \in Caller, Lock(c) PROVE TypeOK'
  BY <1>2 DEF Lock, Goto
<1>3. ASSUME NEW c \in Caller, Register(c) PROVE TypeOK'
  <2>1. PICK r \in Request :
          /\ mine' = [mine EXCEPT ![c] = r]
          /\ table' = [table EXCEPT ![command[c].key] = r]
          /\ wait' = [wait EXCEPT ![r] = command[c].mode = "sync"]
          /\ resends' = [resends EXCEPT ![r] =
                            IF command[c].mode = "sync" THEN 0 ELSE 1]
          /\ answered' = [answered EXCEPT ![r] = FALSE]
          /\ abort' = [q \in Request |->
                          IF q = r THEN FALSE
                          ELSE abort[q] \/ q = table[command[c].key]]
    BY <1>3 DEF Register
  <2>2. pc' \in [Caller -> {"idle", "lock", "register", "once", "sending",
                            "waiting", "remove", "return"}]
    BY <1>3 DEF Register, Goto
  <2>3. wait' \in [Request -> BOOLEAN] /\ answered' \in [Request -> BOOLEAN]
    BY <2>1
  <2>4. abort' \in [Request -> BOOLEAN]
    BY <2>1
  <2>5. table' \in [Key -> Request \cup {None}]
        /\ mine' \in [Caller -> Request \cup {None}]
    BY <2>1
  <2>6. resends' \in [Request -> 0..Resends]
    BY <2>1
  <2> QED
    BY <1>3, <2>2, <2>3, <2>4, <2>5, <2>6 DEF Register
<1>4. ASSUME NEW c \in Caller, SendOnce(c) PROVE TypeOK'
  BY <1>4 DEF SendOnce, Goto
<1>5. ASSUME NEW c \in Caller, Send(c) PROVE TypeOK'
  BY <1>5 DEF Send, Goto
<1>6. ASSUME NEW c \in Caller, SendFails(c) PROVE TypeOK'
  BY <1>6 DEF SendFails, Goto
<1>7. ASSUME NEW c \in Caller, Wake(c) PROVE TypeOK'
  BY <1>7 DEF Wake, EndLoop, Goto
<1>8. ASSUME NEW c \in Caller, NoAnswer(c) PROVE TypeOK'
  BY <1>8 DEF NoAnswer, EndLoop, Goto
<1>9. ASSUME NEW c \in Caller, SendAgain(c) PROVE TypeOK'
  BY <1>9 DEF SendAgain, Unanswered, Goto
<1>10. ASSUME NEW c \in Caller, Remove(c) PROVE TypeOK'
  BY <1>10 DEF Remove, Goto, TableFree
<1>11. ASSUME NEW c \in Caller, Return(c) PROVE TypeOK'
  BY <1>11 DEF Return, Goto
<1>12. ASSUME NEW x \in Receiver, NEW f \in Frame \cup {None}, Receive(x, f) PROVE TypeOK'
  BY <1>12 DEF Receive, Found
<1>13. ASSUME NEW x \in Receiver, LookUpAny(x) PROVE TypeOK'
  BY <1>13 DEF LookUpAny, Found
<1>14. ASSUME NEW x \in Receiver, Gate(x) PROVE TypeOK'
  BY <1>14 DEF Gate
<1>15. ASSUME NEW x \in Receiver, Notify(x) PROVE TypeOK'
  BY <1>15 DEF Notify, EndDelivery
<1>16. ASSUME NEW x \in Receiver, Confirm(x) PROVE TypeOK'
  BY <1>16 DEF Confirm, EndDelivery, TableFree
<1>17. CASE BeginPass
  BY <1>17 DEF BeginPass
<1>18. CASE EndPass
  BY <1>18 DEF EndPass
<1>19. ASSUME NEW k \in Key, Skip(k) PROVE TypeOK'
  BY <1>19 DEF Skip, Visit
<1>20. ASSUME NEW k \in Key, Collect(k) PROVE TypeOK'
  BY <1>20 DEF Collect, Visit
<1>21. ASSUME NEW k \in Key, Resend(k) PROVE TypeOK'
  BY <1>21 DEF Resend, Visit
<1>22. ASSUME NEW k \in Key, ResendFails(k) PROVE TypeOK'
  BY <1>22 DEF ResendFails, Visit
<1>23. CASE UNCHANGED vars
  BY <1>23 DEF vars
<1> QED
  BY <1>1, <1>2, <1>3, <1>4, <1>5, <1>6, <1>7, <1>8, <1>9, <1>10, <1>11,
     <1>12, <1>13, <1>14, <1>15, <1>16, <1>17, <1>18, <1>19, <1>20, <1>21,
     <1>22, <1>23 DEF Next, CallerStep, SendStep, WaitStep, TableStep,
     DeliverStep, WorkerStep

(* The mutex lets one caller at a time get beyond Lock.                    *)
LEMMA CallerInvStep ==
  TypeOK /\ CallerInv /\ [Next]_vars => CallerInv'
<1> SUFFICES ASSUME TypeOK, CallerInv, [Next]_vars
             PROVE  CallerInv'
  OBVIOUS
<1> USE RequestsAssumption DEF TypeOK, Command, Key, CallerInv, callerVars,
   requestVars, receiverVars, workerVars
<1>1. ASSUME NEW c \in Caller, NEW m \in Command, Call(c, m) PROVE CallerInv'
  BY <1>1 DEF Call, Goto
<1>2. ASSUME NEW c \in Caller, Lock(c) PROVE CallerInv'
  BY <1>2 DEF Lock, Goto
<1>3. ASSUME NEW c \in Caller, Register(c) PROVE CallerInv'
  BY <1>3 DEF Register, Goto, Free
<1>4. ASSUME NEW c \in Caller, SendOnce(c) PROVE CallerInv'
  BY <1>4 DEF SendOnce, Goto
<1>5. ASSUME NEW c \in Caller, Send(c) PROVE CallerInv'
  BY <1>5 DEF Send, Goto
<1>6. ASSUME NEW c \in Caller, SendFails(c) PROVE CallerInv'
  BY <1>6 DEF SendFails, Goto
<1>7. ASSUME NEW c \in Caller, Wake(c) PROVE CallerInv'
  BY <1>7 DEF Wake, EndLoop, Goto
<1>8. ASSUME NEW c \in Caller, NoAnswer(c) PROVE CallerInv'
  BY <1>8 DEF NoAnswer, EndLoop, Goto
<1>9. ASSUME NEW c \in Caller, SendAgain(c) PROVE CallerInv'
  BY <1>9 DEF SendAgain, Unanswered, Goto
<1>10. ASSUME NEW c \in Caller, Remove(c) PROVE CallerInv'
  BY <1>10 DEF Remove, Goto, TableFree
<1>11. ASSUME NEW c \in Caller, Return(c) PROVE CallerInv'
  BY <1>11 DEF Return, Goto
<1>12. ASSUME NEW x \in Receiver, NEW f \in Frame \cup {None}, Receive(x, f) PROVE CallerInv'
  BY <1>12 DEF Receive, Found
<1>13. ASSUME NEW x \in Receiver, LookUpAny(x) PROVE CallerInv'
  BY <1>13 DEF LookUpAny, Found
<1>14. ASSUME NEW x \in Receiver, Gate(x) PROVE CallerInv'
  BY <1>14 DEF Gate
<1>15. ASSUME NEW x \in Receiver, Notify(x) PROVE CallerInv'
  BY <1>15 DEF Notify, EndDelivery
<1>16. ASSUME NEW x \in Receiver, Confirm(x) PROVE CallerInv'
  BY <1>16 DEF Confirm, EndDelivery, TableFree
<1>17. CASE BeginPass
  BY <1>17 DEF BeginPass
<1>18. CASE EndPass
  BY <1>18 DEF EndPass
<1>19. ASSUME NEW k \in Key, Skip(k) PROVE CallerInv'
  BY <1>19 DEF Skip, Visit
<1>20. ASSUME NEW k \in Key, Collect(k) PROVE CallerInv'
  BY <1>20 DEF Collect, Visit
<1>21. ASSUME NEW k \in Key, Resend(k) PROVE CallerInv'
  BY <1>21 DEF Resend, Visit
<1>22. ASSUME NEW k \in Key, ResendFails(k) PROVE CallerInv'
  BY <1>22 DEF ResendFails, Visit
<1>23. CASE UNCHANGED vars
  BY <1>23 DEF vars
<1> QED
  BY <1>1, <1>2, <1>3, <1>4, <1>5, <1>6, <1>7, <1>8, <1>9, <1>10, <1>11,
     <1>12, <1>13, <1>14, <1>15, <1>16, <1>17, <1>18, <1>19, <1>20, <1>21,
     <1>22, <1>23 DEF Next, CallerStep, SendStep, WaitStep, TableStep,
     DeliverStep, WorkerStep

(* The table does not change while the worker visits it.                   *)
LEMMA LookupStep ==
  TypeOK /\ LookupInv /\ [Next]_vars => LookupInv'
<1> SUFFICES ASSUME TypeOK, LookupInv, [Next]_vars
             PROVE  LookupInv'
  OBVIOUS
<1> USE RequestsAssumption DEF TypeOK, Command, Key, LookupInv, callerVars,
   requestVars, receiverVars, workerVars
<1>1. ASSUME NEW c \in Caller, NEW m \in Command, Call(c, m) PROVE LookupInv'
  BY <1>1 DEF Call, Goto
<1>2. ASSUME NEW c \in Caller, Lock(c) PROVE LookupInv'
  BY <1>2 DEF Lock, Goto
<1>3. ASSUME NEW c \in Caller, Register(c) PROVE LookupInv'
  BY <1>3 DEF Register, Goto, Free
<1>4. ASSUME NEW c \in Caller, SendOnce(c) PROVE LookupInv'
  BY <1>4 DEF SendOnce, Goto
<1>5. ASSUME NEW c \in Caller, Send(c) PROVE LookupInv'
  BY <1>5 DEF Send, Goto
<1>6. ASSUME NEW c \in Caller, SendFails(c) PROVE LookupInv'
  BY <1>6 DEF SendFails, Goto
<1>7. ASSUME NEW c \in Caller, Wake(c) PROVE LookupInv'
  BY <1>7 DEF Wake, EndLoop, Goto
<1>8. ASSUME NEW c \in Caller, NoAnswer(c) PROVE LookupInv'
  BY <1>8 DEF NoAnswer, EndLoop, Goto
<1>9. ASSUME NEW c \in Caller, SendAgain(c) PROVE LookupInv'
  BY <1>9 DEF SendAgain, Unanswered, Goto
<1>10. ASSUME NEW c \in Caller, Remove(c) PROVE LookupInv'
  BY <1>10 DEF Remove, Goto, TableFree
<1>11. ASSUME NEW c \in Caller, Return(c) PROVE LookupInv'
  BY <1>11 DEF Return, Goto
<1>12. ASSUME NEW x \in Receiver, NEW f \in Frame \cup {None}, Receive(x, f) PROVE LookupInv'
  BY <1>12 DEF Receive, Found
<1>13. ASSUME NEW x \in Receiver, LookUpAny(x) PROVE LookupInv'
  BY <1>13 DEF LookUpAny, Found
<1>14. ASSUME NEW x \in Receiver, Gate(x) PROVE LookupInv'
  BY <1>14 DEF Gate
<1>15. ASSUME NEW x \in Receiver, Notify(x) PROVE LookupInv'
  BY <1>15 DEF Notify, EndDelivery
<1>16. ASSUME NEW x \in Receiver, Confirm(x) PROVE LookupInv'
  BY <1>16 DEF Confirm, EndDelivery, TableFree
<1>17. CASE BeginPass
  BY <1>17 DEF BeginPass
<1>18. CASE EndPass
  BY <1>18 DEF EndPass
<1>19. ASSUME NEW k \in Key, Skip(k) PROVE LookupInv'
  BY <1>19 DEF Skip, Visit
<1>20. ASSUME NEW k \in Key, Collect(k) PROVE LookupInv'
  BY <1>20 DEF Collect, Visit
<1>21. ASSUME NEW k \in Key, Resend(k) PROVE LookupInv'
  BY <1>21 DEF Resend, Visit
<1>22. ASSUME NEW k \in Key, ResendFails(k) PROVE LookupInv'
  BY <1>22 DEF ResendFails, Visit
<1>23. CASE UNCHANGED vars
  BY <1>23 DEF vars
<1> QED
  BY <1>1, <1>2, <1>3, <1>4, <1>5, <1>6, <1>7, <1>8, <1>9, <1>10, <1>11,
     <1>12, <1>13, <1>14, <1>15, <1>16, <1>17, <1>18, <1>19, <1>20, <1>21,
     <1>22, <1>23 DEF Next, CallerStep, SendStep, WaitStep, TableStep,
     DeliverStep, WorkerStep

(* Only another command for the same answer would abort this one, or take  *)
(* its key, and that waits for _sendPacketMutex.                           *)
LEMMA LoopStep ==
  TypeOK /\ CallerInv /\ LoopUndisturbed /\ [Next]_vars => LoopUndisturbed'
<1> SUFFICES ASSUME TypeOK, CallerInv, LoopUndisturbed, [Next]_vars
             PROVE  LoopUndisturbed'
  OBVIOUS
<1> USE RequestsAssumption DEF TypeOK, Command, Key, CallerInv,
   LoopUndisturbed, InLoop, callerVars, requestVars, receiverVars,
   workerVars
<1>1. ASSUME NEW c \in Caller, NEW m \in Command, Call(c, m) PROVE LoopUndisturbed'
  BY <1>1 DEF Call, Goto
<1>2. ASSUME NEW c \in Caller, Lock(c) PROVE LoopUndisturbed'
  BY <1>2 DEF Lock, Goto
<1>3. ASSUME NEW c \in Caller, Register(c) PROVE LoopUndisturbed'
  BY <1>3 DEF Register, Goto, Free
<1>4. ASSUME NEW c \in Caller, SendOnce(c) PROVE LoopUndisturbed'
  BY <1>4 DEF SendOnce, Goto
<1>5. ASSUME NEW c \in Caller, Send(c) PROVE LoopUndisturbed'
  BY <1>5 DEF Send, Goto
<1>6. ASSUME NEW c \in Caller, SendFails(c) PROVE LoopUndisturbed'
  BY <1>6 DEF SendFails, Goto
<1>7. ASSUME NEW c \in Caller, Wake(c) PROVE LoopUndisturbed'
  BY <1>7 DEF Wake, EndLoop, Goto
<1>8. ASSUME NEW c \in Caller, NoAnswer(c) PROVE LoopUndisturbed'
  BY <1>8 DEF NoAnswer, EndLoop, Goto
<1>9. ASSUME NEW c \in Caller, SendAgain(c) PROVE LoopUndisturbed'
  BY <1>9 DEF SendAgain, Unanswered, Goto
<1>10. ASSUME NEW c \in Caller, Remove(c) PROVE LoopUndisturbed'
  BY <1>10 DEF Remove, Goto, TableFree
<1>11. ASSUME NEW c \in Caller, Return(c) PROVE LoopUndisturbed'
  BY <1>11 DEF Return, Goto
<1>12. ASSUME NEW x \in Receiver, NEW f \in Frame \cup {None}, Receive(x, f) PROVE LoopUndisturbed'
  BY <1>12 DEF Receive, Found
<1>13. ASSUME NEW x \in Receiver, LookUpAny(x) PROVE LoopUndisturbed'
  BY <1>13 DEF LookUpAny, Found
<1>14. ASSUME NEW x \in Receiver, Gate(x) PROVE LoopUndisturbed'
  BY <1>14 DEF Gate
<1>15. ASSUME NEW x \in Receiver, Notify(x) PROVE LoopUndisturbed'
  BY <1>15 DEF Notify, EndDelivery
<1>16. ASSUME NEW x \in Receiver, Confirm(x) PROVE LoopUndisturbed'
  BY <1>16 DEF Confirm, EndDelivery, TableFree
<1>17. CASE BeginPass
  BY <1>17 DEF BeginPass
<1>18. CASE EndPass
  BY <1>18 DEF EndPass
<1>19. ASSUME NEW k \in Key, Skip(k) PROVE LoopUndisturbed'
  BY <1>19 DEF Skip, Visit
<1>20. ASSUME NEW k \in Key, Collect(k) PROVE LoopUndisturbed'
  BY <1>20 DEF Collect, Visit
<1>21. ASSUME NEW k \in Key, Resend(k) PROVE LoopUndisturbed'
  BY <1>21 DEF Resend, Visit
<1>22. ASSUME NEW k \in Key, ResendFails(k) PROVE LoopUndisturbed'
  BY <1>22 DEF ResendFails, Visit
<1>23. CASE UNCHANGED vars
  BY <1>23 DEF vars
<1> QED
  BY <1>1, <1>2, <1>3, <1>4, <1>5, <1>6, <1>7, <1>8, <1>9, <1>10, <1>11,
     <1>12, <1>13, <1>14, <1>15, <1>16, <1>17, <1>18, <1>19, <1>20, <1>21,
     <1>22, <1>23 DEF Next, CallerStep, SendStep, WaitStep, TableStep,
     DeliverStep, WorkerStep

(* The receiver that notifies has the caller's own request.                *)
LEMMA SignalStep ==
  TypeOK /\ CallerInv /\ SignalInv /\ [Next]_vars => SignalInv'
<1> SUFFICES ASSUME TypeOK, CallerInv, SignalInv, [Next]_vars
             PROVE  SignalInv'
  OBVIOUS
<1> USE RequestsAssumption DEF TypeOK, Command, Key, CallerInv, SignalInv,
   callerVars, requestVars, receiverVars, workerVars
<1>1. ASSUME NEW c \in Caller, NEW m \in Command, Call(c, m) PROVE SignalInv'
  BY <1>1 DEF Call, Goto
<1>2. ASSUME NEW c \in Caller, Lock(c) PROVE SignalInv'
  BY <1>2 DEF Lock, Goto
<1>3. ASSUME NEW c \in Caller, Register(c) PROVE SignalInv'
  BY <1>3 DEF Register, Goto, Free
<1>4. ASSUME NEW c \in Caller, SendOnce(c) PROVE SignalInv'
  BY <1>4 DEF SendOnce, Goto
<1>5. ASSUME NEW c \in Caller, Send(c) PROVE SignalInv'
  BY <1>5 DEF Send, Goto
<1>6. ASSUME NEW c \in Caller, SendFails(c) PROVE SignalInv'
  BY <1>6 DEF SendFails, Goto
<1>7. ASSUME NEW c \in Caller, Wake(c) PROVE SignalInv'
  BY <1>7 DEF Wake, EndLoop, Goto
<1>8. ASSUME NEW c \in Caller, NoAnswer(c) PROVE SignalInv'
  BY <1>8 DEF NoAnswer, EndLoop, Goto
<1>9. ASSUME NEW c \in Caller, SendAgain(c) PROVE SignalInv'
  BY <1>9 DEF SendAgain, Unanswered, Goto
<1>10. ASSUME NEW c \in Caller, Remove(c) PROVE SignalInv'
  BY <1>10 DEF Remove, Goto, TableFree
<1>11. ASSUME NEW c \in Caller, Return(c) PROVE SignalInv'
  BY <1>11 DEF Return, Goto
<1>12. ASSUME NEW x \in Receiver, NEW f \in Frame \cup {None}, Receive(x, f) PROVE SignalInv'
  BY <1>12 DEF Receive, Found
<1>13. ASSUME NEW x \in Receiver, LookUpAny(x) PROVE SignalInv'
  BY <1>13 DEF LookUpAny, Found
<1>14. ASSUME NEW x \in Receiver, Gate(x) PROVE SignalInv'
  BY <1>14 DEF Gate
<1>15. ASSUME NEW x \in Receiver, Notify(x) PROVE SignalInv'
  BY <1>15 DEF Notify, EndDelivery
<1>16. ASSUME NEW x \in Receiver, Confirm(x) PROVE SignalInv'
  BY <1>16 DEF Confirm, EndDelivery, TableFree
<1>17. CASE BeginPass
  BY <1>17 DEF BeginPass
<1>18. CASE EndPass
  BY <1>18 DEF EndPass
<1>19. ASSUME NEW k \in Key, Skip(k) PROVE SignalInv'
  BY <1>19 DEF Skip, Visit
<1>20. ASSUME NEW k \in Key, Collect(k) PROVE SignalInv'
  BY <1>20 DEF Collect, Visit
<1>21. ASSUME NEW k \in Key, Resend(k) PROVE SignalInv'
  BY <1>21 DEF Resend, Visit
<1>22. ASSUME NEW k \in Key, ResendFails(k) PROVE SignalInv'
  BY <1>22 DEF ResendFails, Visit
<1>23. CASE UNCHANGED vars
  BY <1>23 DEF vars
<1> QED
  BY <1>1, <1>2, <1>3, <1>4, <1>5, <1>6, <1>7, <1>8, <1>9, <1>10, <1>11,
     <1>12, <1>13, <1>14, <1>15, <1>16, <1>17, <1>18, <1>19, <1>20, <1>21,
     <1>22, <1>23 DEF Next, CallerStep, SendStep, WaitStep, TableStep,
     DeliverStep, WorkerStep

(* The wait of a command that was not aborted ends with success only when  *)
(* it was notified.                                                        *)
LEMMA SuccessStep ==
  TypeOK /\ CallerInv /\ LoopUndisturbed /\ SignalInv /\ SuccessIsAnswered /\ [Next]_vars => SuccessIsAnswered'
<1> SUFFICES ASSUME TypeOK, CallerInv, LoopUndisturbed, SignalInv, SuccessIsAnswered, [Next]_vars
             PROVE  SuccessIsAnswered'
  OBVIOUS
<1> USE RequestsAssumption DEF TypeOK, Command, Key, CallerInv,
   LoopUndisturbed, InLoop, SignalInv, SuccessIsAnswered, callerVars,
   requestVars, receiverVars, workerVars
<1>1. ASSUME NEW c \in Caller, NEW m \in Command, Call(c, m) PROVE SuccessIsAnswered'
  BY <1>1 DEF Call, Goto
<1>2. ASSUME NEW c \in Caller, Lock(c) PROVE SuccessIsAnswered'
  BY <1>2 DEF Lock, Goto
<1>3. ASSUME NEW c \in Caller, Register(c) PROVE SuccessIsAnswered'
  BY <1>3 DEF Register, Goto, Free
<1>4. ASSUME NEW c \in Caller, SendOnce(c) PROVE SuccessIsAnswered'
  BY <1>4 DEF SendOnce, Goto
<1>5. ASSUME NEW c \in Caller, Send(c) PROVE SuccessIsAnswered'
  BY <1>5 DEF Send, Goto
<1>6. ASSUME NEW c \in Caller, SendFails(c) PROVE SuccessIsAnswered'
  BY <1>6 DEF SendFails, Goto
<1>7. ASSUME NEW c \in Caller, Wake(c) PROVE SuccessIsAnswered'
  <2>1. pc[c] = "waiting" /\ command[c] \in Command /\ mine[c] # None
        /\ command[c].mode = "sync"
    BY <1>7 DEF Wake
  <2>2. ~abort[mine[c]]
    BY <2>1
  <2>3. answered[mine[c]]
    BY <1>7, <2>1, <2>2 DEF Wake, Released
  <2>4. UNCHANGED <<mine, answered>> /\ pc' = [pc EXCEPT ![c] = "remove"]
        /\ success' = [success EXCEPT ![c] = TRUE]
    BY <1>7 DEF Wake, EndLoop, Goto
  <2> QED
    BY <2>3, <2>4
<1>8. ASSUME NEW c \in Caller, NoAnswer(c) PROVE SuccessIsAnswered'
  BY <1>8 DEF NoAnswer, EndLoop, Goto
<1>9. ASSUME NEW c \in Caller, SendAgain(c) PROVE SuccessIsAnswered'
  BY <1>9 DEF SendAgain, Unanswered, Goto
<1>10. ASSUME NEW c \in Caller, Remove(c) PROVE SuccessIsAnswered'
  BY <1>10 DEF Remove, Goto, TableFree
<1>11. ASSUME NEW c \in Caller, Return(c) PROVE SuccessIsAnswered'
  BY <1>11 DEF Return, Goto
<1>12. ASSUME NEW x \in Receiver, NEW f \in Frame \cup {None}, Receive(x, f) PROVE SuccessIsAnswered'
  BY <1>12 DEF Receive, Found
<1>13. ASSUME NEW x \in Receiver, LookUpAny(x) PROVE SuccessIsAnswered'
  BY <1>13 DEF LookUpAny, Found
<1>14. ASSUME NEW x \in Receiver, Gate(x) PROVE SuccessIsAnswered'
  BY <1>14 DEF Gate
<1>15. ASSUME NEW x \in Receiver, Notify(x) PROVE SuccessIsAnswered'
  BY <1>15 DEF Notify, EndDelivery
<1>16. ASSUME NEW x \in Receiver, Confirm(x) PROVE SuccessIsAnswered'
  BY <1>16 DEF Confirm, EndDelivery, TableFree
<1>17. CASE BeginPass
  BY <1>17 DEF BeginPass
<1>18. CASE EndPass
  BY <1>18 DEF EndPass
<1>19. ASSUME NEW k \in Key, Skip(k) PROVE SuccessIsAnswered'
  BY <1>19 DEF Skip, Visit
<1>20. ASSUME NEW k \in Key, Collect(k) PROVE SuccessIsAnswered'
  BY <1>20 DEF Collect, Visit
<1>21. ASSUME NEW k \in Key, Resend(k) PROVE SuccessIsAnswered'
  BY <1>21 DEF Resend, Visit
<1>22. ASSUME NEW k \in Key, ResendFails(k) PROVE SuccessIsAnswered'
  BY <1>22 DEF ResendFails, Visit
<1>23. CASE UNCHANGED vars
  BY <1>23 DEF vars
<1> QED
  BY <1>1, <1>2, <1>3, <1>4, <1>5, <1>6, <1>7, <1>8, <1>9, <1>10, <1>11,
     <1>12, <1>13, <1>14, <1>15, <1>16, <1>17, <1>18, <1>19, <1>20, <1>21,
     <1>22, <1>23 DEF Next, CallerStep, SendStep, WaitStep, TableStep,
     DeliverStep, WorkerStep

(* Objects are registered when nobody refers to them, and an answer removes *)
(* the entry it was found by.                                              *)
LEMMA KeyStep ==
  TypeOK /\ CallerInv /\ LookupInv /\ KeyInv /\ [Next]_vars => KeyInv'
<1> SUFFICES ASSUME TypeOK, CallerInv, LookupInv, KeyInv, [Next]_vars
             PROVE  KeyInv'
  OBVIOUS
<1> USE RequestsAssumption DEF TypeOK, Command, Key, CallerInv, LookupInv,
   KeyInv, callerVars, requestVars, receiverVars, workerVars
<1>1. ASSUME NEW c \in Caller, NEW m \in Command, Call(c, m) PROVE KeyInv'
  BY <1>1 DEF Call, Goto
<1>2. ASSUME NEW c \in Caller, Lock(c) PROVE KeyInv'
  BY <1>2 DEF Lock, Goto
<1>3. ASSUME NEW c \in Caller, Register(c) PROVE KeyInv'
  BY <1>3 DEF Register, Goto, Free
<1>4. ASSUME NEW c \in Caller, SendOnce(c) PROVE KeyInv'
  BY <1>4 DEF SendOnce, Goto
<1>5. ASSUME NEW c \in Caller, Send(c) PROVE KeyInv'
  BY <1>5 DEF Send, Goto
<1>6. ASSUME NEW c \in Caller, SendFails(c) PROVE KeyInv'
  BY <1>6 DEF SendFails, Goto
<1>7. ASSUME NEW c \in Caller, Wake(c) PROVE KeyInv'
  BY <1>7 DEF Wake, EndLoop, Goto
<1>8. ASSUME NEW c \in Caller, NoAnswer(c) PROVE KeyInv'
  BY <1>8 DEF NoAnswer, EndLoop, Goto
<1>9. ASSUME NEW c \in Caller, SendAgain(c) PROVE KeyInv'
  BY <1>9 DEF SendAgain, Unanswered, Goto
<1>10. ASSUME NEW c \in Caller, Remove(c) PROVE KeyInv'
  BY <1>10 DEF Remove, Goto, TableFree
<1>11. ASSUME NEW c \in Caller, Return(c) PROVE KeyInv'
  BY <1>11 DEF Return, Goto
<1>12. ASSUME NEW x \in Receiver, NEW f \in Frame \cup {None}, Receive(x, f) PROVE KeyInv'
  BY <1>12 DEF Receive, Found
<1>13. ASSUME NEW x \in Receiver, LookUpAny(x) PROVE KeyInv'
  BY <1>13 DEF LookUpAny, Found
<1>14. ASSUME NEW x \in Receiver, Gate(x) PROVE KeyInv'
  BY <1>14 DEF Gate
<1>15. ASSUME NEW x \in Receiver, Notify(x) PROVE KeyInv'
  BY <1>15 DEF Notify, EndDelivery
<1>16. ASSUME NEW x \in Receiver, Confirm(x) PROVE KeyInv'
  BY <1>16 DEF Confirm, EndDelivery, TableFree
<1>17. CASE BeginPass
  BY <1>17 DEF BeginPass
<1>18. CASE EndPass
  BY <1>18 DEF EndPass
<1>19. ASSUME NEW k \in Key, Skip(k) PROVE KeyInv'
  BY <1>19 DEF Skip, Visit
<1>20. ASSUME NEW k \in Key, Collect(k) PROVE KeyInv'
  BY <1>20 DEF Collect, Visit
<1>21. ASSUME NEW k \in Key, Resend(k) PROVE KeyInv'
  BY <1>21 DEF Resend, Visit
<1>22. ASSUME NEW k \in Key, ResendFails(k) PROVE KeyInv'
  BY <1>22 DEF ResendFails, Visit
<1>23. CASE UNCHANGED vars
  BY <1>23 DEF vars
<1> QED
  BY <1>1, <1>2, <1>3, <1>4, <1>5, <1>6, <1>7, <1>8, <1>9, <1>10, <1>11,
     <1>12, <1>13, <1>14, <1>15, <1>16, <1>17, <1>18, <1>19, <1>20, <1>21,
     <1>22, <1>23 DEF Next, CallerStep, SendStep, WaitStep, TableStep,
     DeliverStep, WorkerStep

-----------------------------------------------------------------------------
(* The inductive invariant holds at the start, and every step keeps it.    *)
LEMMA InitIInv == Init => IInv
<1> SUFFICES ASSUME Init PROVE IInv
  OBVIOUS
<1> USE RequestsAssumption DEF Init
<1>1. TypeOK
  BY DEF TypeOK
<1>2. CallerInv /\ LookupInv /\ SignalInv /\ SuccessIsAnswered
  BY DEF CallerInv, LookupInv, SignalInv, SuccessIsAnswered
<1>3. LoopUndisturbed /\ KeyInv
  BY DEF LoopUndisturbed, InLoop, KeyInv
<1> QED
  BY <1>1, <1>2, <1>3 DEF IInv

LEMMA NextIInv == IInv /\ [Next]_vars => IInv'
  BY TypeStep, CallerInvStep, LookupStep, LoopStep, SignalStep, SuccessStep,
     KeyStep
     DEF IInv

(* In every state the program can be in, a request, its entry and what the *)
(* callers, packetReceived and the worker do with them agree.              *)
THEOREM Invariance == Spec => []IInv
  BY InitIInv, NextIInv, PTL DEF Spec

(* Every variable keeps its type, and both counts of resends their limit.  *)
THEOREM TypeInvariant == Spec => []TypeOK
  BY Invariance, PTL DEF IInv

(* While a synchronous command is in its loop in sendPacket, no other      *)
(* command aborts it or takes its key.                                     *)
THEOREM Undisturbed == Spec => []LoopUndisturbed
  BY Invariance, PTL DEF IInv

(* A synchronous command that reports success got a frame of its own.      *)
THEOREM Answered == Spec => []SuccessIsAnswered
  BY Invariance, PTL DEF IInv

(* The worker does not resend a command whose answer packetReceived has    *)
(* processed, although that uses the entry, and removes it by key, after   *)
(* it has released _rpcRequestsMutex.                                      *)
LEMMA ResendsUnanswered ==
  ASSUME IInv, [Next]_vars, NEW r \in Request,
         resends'[r] > resends[r], resends[r] > 0
  PROVE  ~answered[r]
<1> USE RequestsAssumption DEF IInv, TypeOK
<1>1. CASE \E c \in Caller : Register(c)
  <2>1. PICK c \in Caller : Register(c)
    BY <1>1
  <2>2. resends'[r] \in {resends[r], 0, 1}
    BY <2>1 DEF Register
  <2> QED
    BY <2>2
<1>2. CASE \E k \in Key : Resend(k)
  <2>1. PICK k \in Key : Resend(k)
    BY <1>2
  <2>2. table[k] = r /\ ~wait[r]
    BY <2>1 DEF Resend, Visit
  <2> QED
    BY <2>2 DEF KeyInv
<1>3. CASE UNCHANGED resends
  BY <1>3
<1>4. \/ \E c \in Caller : Register(c)
      \/ \E k \in Key : Resend(k)
      \/ UNCHANGED resends
  BY DEF Next, vars, CallerStep, SendStep, WaitStep, TableStep, DeliverStep,
         WorkerStep, requestVars, Call, Lock, SendOnce, Send, SendFails, Wake,
         NoAnswer, SendAgain, EndLoop, Remove, Return, Receive, LookUpAny, Gate,
         Notify, Confirm, EndDelivery, BeginPass, EndPass, Skip, Collect,
         ResendFails
<1> QED
  BY <1>1, <1>2, <1>3, <1>4

(* The worker never resends a command that packetReceived has answered.    *)
THEOREM NotResent == Spec => AnsweredNotResent
<1>1. IInv /\ [Next]_vars =>
        [\A r \in Request :
           resends'[r] > resends[r] /\ resends[r] > 0 => ~answered[r]]_vars
  BY ResendsUnanswered
<1> QED
  BY <1>1, Invariance, PTL DEF Spec, AnsweredNotResent
=============================================================================
