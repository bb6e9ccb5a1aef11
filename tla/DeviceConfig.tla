------------------------------ MODULE DeviceConfig ------------------------------
(***************************************************************************)
(* The queue of configuration parameters for a device that sleeps:         *)
(* putParamset ends in queueSetDeviceConfiguration, and a signal telegram  *)
(* (0xD0) of the waking device makes packetReceived transfer the queue and *)
(* fetch the configuration in sessions of RemoteManagement, beside the     *)
(* sessions of other threads.  For a device that is always awake, the      *)
(* parameters are transferred at once.                                     *)
(*                                                                         *)
(* The values of a parameter are numbered in the order they are added.     *)
(* Writes to the database are stored in order and before a restart.        *)
(* Bounds: MaxValue values, MaxSessions sessions of others.                *)
(***************************************************************************)
EXTENDS RemoteManagement, FiniteSets

CONSTANTS Rpc,      \* threads of calls
          Receiver, \* threads that hand packets to the peer
          Parameter, None, MaxValue, MaxSessions

ASSUME DeviceConfigAssumption ==
  /\ Rpc \cup Receiver = Thread
  /\ Rpc \cap Receiver = {}
  /\ None \notin Thread
  /\ {MaxValue, MaxSessions} \subseteq Nat

VARIABLES
  sleeps,     \* whether the device has receive mode wakeUp2
  update,     \* [Thread -> the parameters it adds or transfers, with values]
  queued,     \* _updatedParameters
  queueMutex, \* the holder of _updatedParametersMutex
  setFlag,    \* _remoteManagementQueueSetDeviceConfiguration
  getFlag,    \* _remoteManagementQueueGetDeviceConfiguration
  pending,    \* the service message CONFIG_PENDING
  saved,      \* _updatedParameters in the database
  staged,     \* what the device was sent
  active,     \* what the device has applied
  latest,     \* history: the values the callers want
  value,      \* values used
  sessions,   \* sessions of others
  overlapped  \* history: a signal, or the end of the process, came while
              \* parameters were queued or saved

queueVars == <<queued, queueMutex, setFlag, getFlag, pending, saved>>
deviceVars == <<staged, active>>
boundVars == <<value, sessions>>
vars == <<sessionVars, sleeps, update, queueVars, deviceVars, latest,
          boundVars, overlapped>>

(* Parameters with values: 0 stands for a parameter that is not there.     *)
Update == [Parameter -> 0..MaxValue]
Nothing == [p \in Parameter |-> 0]
Merge(old, new) == [p \in Parameter |-> IF new[p] # 0 THEN new[p] ELSE old[p]]
Size(u) == Cardinality({p \in Parameter : u[p] # 0})

TypeOK ==
  /\ SessionTypeOK
  /\ pc \in [Thread -> {"idle", "flag", "add", "save", "signal", "transfer",
                       "after", "unlock", "command", "apply", "lock", "end"}]
  /\ update \in [Thread -> Update]
  /\ {queued, saved, staged, active, latest} \subseteq Update
  /\ queueMutex \in Receiver \cup {None}
  /\ {sleeps, setFlag, getFlag, pending, overlapped} \subseteq BOOLEAN
  /\ value \in 0..MaxValue
  /\ sessions \in 0..MaxSessions

Init ==
  /\ SessionInit
  /\ sleeps \in BOOLEAN
  /\ update = [t \in Thread |-> Nothing]
  /\ queued = Nothing
  /\ saved = Nothing
  /\ staged = Nothing
  /\ active = Nothing
  /\ latest = Nothing
  /\ queueMutex = None
  /\ setFlag = FALSE
  /\ getFlag = FALSE
  /\ pending = FALSE
  /\ value = 0
  /\ sessions = 0
  /\ overlapped = FALSE
-----------------------------------------------------------------------------
(* queueSetDeviceConfiguration.                                            *)

Calling == {r \in Rpc : pc[r] \in {"flag", "add"}}

(* The parameters of a call, with a new value.                             *)
Values(r) ==
  /\ value' = value + 1
  /\ \E ps \in SUBSET Parameter \ {{}} :
       update' = [update EXCEPT ![r] = [p \in Parameter |->
                                         IF p \in ps THEN value' ELSE 0]]

Chunks(u) == IF Size(u) > 1 THEN 1..2 ELSE {1}

SetNow(r) ==
  /\ ~sleeps
  /\ value < MaxValue
  /\ Values(r)
  /\ \E c \in Chunks(update'[r]) : Start(r, "idle", SetDeviceConfiguration(c))
  /\ UNCHANGED <<sleeps, queueVars, deviceVars, latest, sessions, overlapped>>

(* Whether a signal telegram is being handled.                             *)
Signalled == \E t \in Receiver : pc[t] # "idle"

Queue(r) ==
  /\ sleeps
  /\ value + Cardinality(Calling) < MaxValue
  /\ Goto(r, "idle", "flag")
  /\ pending' = TRUE
  /\ overlapped' = Signalled
  /\ UNCHANGED <<op, step, result, open, leftOpen, sleeps, update, queued,
                 queueMutex, setFlag, getFlag, saved, deviceVars, latest,
                 boundVars>>

SetFlag(r) ==
  /\ Goto(r, "flag", "add")
  /\ setFlag' = TRUE
  /\ overlapped' = (overlapped \/ Signalled)
  /\ UNCHANGED <<op, step, result, open, leftOpen, sleeps, update, queued,
                 queueMutex, getFlag, pending, saved, deviceVars, latest,
                 boundVars>>

AddParameters(r) ==
  /\ queueMutex = None
  /\ Goto(r, "add", "save")
  /\ Values(r)
  /\ queued' = Merge(queued, update'[r])
  /\ latest' = Merge(latest, update'[r])
  /\ UNCHANGED <<op, step, result, open, leftOpen, sleeps, queueMutex, setFlag,
                 getFlag, pending, saved, deviceVars, sessions, overlapped>>

(* saveUpdatedParameters.                                                  *)
Save(t) ==
  /\ queueMutex = None
  /\ Goto(t, "save", IF t \in Receiver THEN "after" ELSE "idle")
  /\ saved' = queued
  /\ update' = [update EXCEPT ![t] = Nothing]
  /\ UNCHANGED <<op, step, result, open, leftOpen, sleeps, queued, queueMutex,
                 setFlag, getFlag, pending, deviceVars, latest, boundVars,
                 overlapped>>

(* queueGetDeviceConfiguration.                                            *)
QueueGet(r) ==
  /\ pc[r] = "idle"
  /\ IF sleeps
       THEN getFlag' = TRUE /\ UNCHANGED sessionVars
       ELSE Start(r, "idle", GetDeviceConfiguration) /\ UNCHANGED getFlag
  /\ UNCHANGED <<sleeps, update, queued, queueMutex, setFlag, pending, saved,
                 deviceVars, latest, boundVars, overlapped>>

OtherSession(r) ==
  /\ sessions < MaxSessions
  /\ sessions' = sessions + 1
  /\ \E o \in OtherOperations : Start(r, "idle", o)
  /\ UNCHANGED <<sleeps, update, queueVars, deviceVars, latest, value, overlapped>>

-----------------------------------------------------------------------------
(* The signal telegram.                                                    *)

Signal(t) ==
  /\ Goto(t, "idle", IF setFlag THEN "transfer" ELSE "after")
  /\ pending' = (pending /\ setFlag)
  /\ overlapped' = (overlapped \/ Calling # {})
  /\ UNCHANGED <<op, step, result, open, leftOpen, sleeps, update, queued,
                 queueMutex, setFlag, getFlag, saved, deviceVars, latest,
                 boundVars>>

(* The mutex is held until the transfer has ended.                         *)
Transfer(t) ==
  /\ queueMutex = None
  /\ queueMutex' = t
  /\ \E c \in Chunks(queued) : Start(t, "transfer", SetDeviceConfiguration(c))
  /\ update' = [update EXCEPT ![t] = queued]
  /\ UNCHANGED <<sleeps, queued, setFlag, getFlag, pending, saved, deviceVars,
                 latest, boundVars, overlapped>>

AfterTransfer(t) ==
  /\ IF getFlag
       THEN Start(t, "after", GetDeviceConfiguration)
       ELSE Goto(t, "after", "idle") /\ UNCHANGED <<op, step, result, open, leftOpen>>
  /\ UNCHANGED <<sleeps, update, queueVars, deviceVars, latest, boundVars,
                 overlapped>>

-----------------------------------------------------------------------------
(* Sessions, and what they do to the device.                               *)

Setting(t) == \E c \in 1..2 : op[t] = SetDeviceConfiguration(c)

(* The parameters the next command of t carries, all or one of them, reach *)
(* the device if it obeys.                                                 *)
Carry(t, obeys) ==
  \E u \in IF Setting(t) /\ step[t] + 1 < Len(Commands(t))
           THEN {[Nothing EXCEPT ![p] = update[t][p]] :
                   p \in {q \in Parameter : update[t][q] # 0}}
           ELSE {update[t]} :
    /\ staged' = IF Setting(t) /\ obeys THEN Merge(staged, u) ELSE staged
    /\ update' = IF Setting(t)
                   THEN [update EXCEPT ![t] = [p \in Parameter |->
                                                 IF u[p] # 0 THEN 0 ELSE @[p]]]
                   ELSE update

SendCommand(t) ==
  /\ \/ CommandAcknowledged(t) /\ Carry(t, TRUE)
     \/ CommandLost(t) /\ \E obeys \in {FALSE, open} : Carry(t, obeys)
     \/ CommandFails(t) /\ Carry(t, FALSE)
  /\ UNCHANGED <<sleeps, queueVars, active, latest, boundVars, overlapped>>

ApplyChanges(t) ==
  /\ \/ ChangesApplied(t) /\ active' = staged
     \/ ApplyFails(t) /\ active' \in {active, IF open THEN staged ELSE active}
  /\ UNCHANGED <<sleeps, update, queueVars, staged, latest, boundVars, overlapped>>

UnlockOrLock(t) ==
  /\ Unlock(t) \/ Lock(t)
  /\ UNCHANGED <<sleeps, update, queueVars, deviceVars, latest, boundVars,
                 overlapped>>

(* Faulty variant: the queue is emptied whether or not the transfer        *)
(* succeeded.                                                              *)
EndSetAnyway(t) ==
  /\ Setting(t)
  /\ End(t, IF t \in Receiver THEN "save" ELSE "idle")
  /\ setFlag' = (setFlag /\ ~result[t])
  /\ pending' = (pending /\ ~result[t])
  /\ queued' = IF t \in Receiver THEN Nothing ELSE queued
  /\ queueMutex' = IF t \in Receiver THEN None ELSE queueMutex
  /\ update' = [update EXCEPT ![t] = Nothing]
  /\ UNCHANGED <<sleeps, getFlag, saved,
                 deviceVars, latest, boundVars, overlapped>>

(* Faulty variant: the flag is cleared whether or not the transfer         *)
(* succeeded.                                                              *)
EndSetUnflagged(t) ==
  /\ Setting(t)
  /\ End(t, IF t \in Receiver THEN "save" ELSE "idle")
  /\ setFlag' = FALSE
  /\ pending' = (pending /\ ~result[t])
  /\ queued' = IF t \in Receiver /\ result[t] THEN Nothing ELSE queued
  /\ queueMutex' = IF t \in Receiver THEN None ELSE queueMutex
  /\ update' = [update EXCEPT ![t] = Nothing]
  /\ UNCHANGED <<sleeps, getFlag, saved,
                 deviceVars, latest, boundVars, overlapped>>

(* The end of setDeviceConfiguration and, for a signal, of its critical    *)
(* section.                                                                *)
EndSet(t) ==
  /\ Setting(t)
  /\ End(t, IF t \in Receiver THEN "save" ELSE "idle")
  /\ setFlag' = (setFlag /\ ~result[t])
  /\ pending' = (pending /\ ~result[t])
  /\ queued' = IF t \in Receiver /\ result[t] THEN Nothing ELSE queued
  /\ queueMutex' = IF t \in Receiver THEN None ELSE queueMutex
  /\ update' = [update EXCEPT ![t] = Nothing]
  /\ UNCHANGED <<sleeps, getFlag, saved,
                 deviceVars, latest, boundVars, overlapped>>

EndOther(t) ==
  /\ ~Setting(t)
  /\ End(t, "idle")
  /\ getFlag' = (getFlag /\ ~(op[t] = GetDeviceConfiguration /\ result[t]))
  /\ UNCHANGED <<sleeps, update, queued,
                 queueMutex, setFlag, pending, saved, deviceVars, latest,
                 boundVars, overlapped>>

-----------------------------------------------------------------------------
(* What a call that did not return had queued is lost with the process;    *)
(* loadUpdatedParameters brings back the rest.                             *)
Restart ==
  /\ pc' = [t \in Thread |-> "idle"]
  /\ op' = [t \in Thread |-> GetLinkTable]
  /\ step' = [t \in Thread |-> 0]
  /\ result' = [t \in Thread |-> FALSE]
  /\ update' = [t \in Thread |-> Nothing]
  /\ leftOpen' = (leftOpen \/ open)
  /\ queueMutex' = None
  /\ queued' = saved
  /\ setFlag' = (saved # Nothing)
  /\ getFlag' = FALSE
  /\ latest' = [p \in Parameter |->
       IF \E r \in Rpc : pc[r] = "save" /\ update[r][p] # 0
         THEN IF saved[p] # 0 THEN saved[p] ELSE active[p]
         ELSE latest[p]]
  /\ overlapped' = (overlapped \/ \E t \in Thread : pc[t] = "save")
  /\ UNCHANGED <<open, sleeps, pending, saved, deviceVars, boundVars>>

SessionStep(t) ==
  SendCommand(t) \/ ApplyChanges(t) \/ UnlockOrLock(t) \/ EndSet(t) \/ EndOther(t)

Next ==
  \/ \E r \in Rpc : \/ SetNow(r) \/ Queue(r) \/ SetFlag(r) \/ AddParameters(r)
                   \/ QueueGet(r) \/ OtherSession(r)
  \/ \E t \in Receiver : Signal(t) \/ Transfer(t) \/ AfterTransfer(t)
  \/ \E t \in Thread : SessionStep(t) \/ Save(t)
  \/ Restart

Spec == Init /\ [][Next]_vars

-----------------------------------------------------------------------------
(* Correctness.                                                            *)

(* The value last asked for, or a newer one, is queued or in force in the  *)
(* device, whatever is lost on the air, whoever else adds values or locks  *)
(* the device during the transfer, and wherever the program is restarted.  *)
NoParameterLost ==
  sleeps => \A p \in Parameter :
    queued[p] >= latest[p] \/ active[p] >= latest[p]

(* A value is replaced by an older one only while something is queued for  *)
(* its parameter: what a transfer that failed, or that a restart cut       *)
(* short, has left in the device is not brought into force later, by the   *)
(* session of another thread, over what was transferred since.             *)
NothingStaleApplied ==
  [][sleeps => \A p \in Parameter :
       active'[p] < active[p] => queued[p] # 0 /\ queued[p] >= latest[p]]_vars

(* Once everything is quiet, the next signal transfers what is queued, and *)
(* the user is told that it waits - unless a call overlapped a signal or   *)
(* was cut short.                                                          *)
QueuedIsSent ==
  /\ sleeps
  /\ \A t \in Thread : pc[t] = "idle"
  /\ queued # Nothing
  /\ ~overlapped
  => setFlag /\ pending
=============================================================================
