-------------------------- MODULE DeviceConfig_proofs --------------------------
(***************************************************************************)
(* Proofs about the configuration queue and the sessions with the device,  *)
(* for any number of threads, parameters, values and sessions: the types,  *)
(* that no parameter is lost, that what is queued is sent with the next    *)
(* signal, and who leaves a device open.                                   *)
(***************************************************************************)
EXTENDS DeviceConfig, FiniteSetTheorems, SequenceTheorems, TLAPS

(* The next command of a session is one of its operation.                  *)
CommandInv ==
  \A t \in Thread :
    /\ pc[t] = "unlock" => step[t] = 0
    /\ pc[t] = "command" => step[t] < Len(Commands(t))

(* An open device has a session that is going to lock it, or was left      *)
(* open.                                                                   *)
OpenInv ==
  open /\ ~leftOpen =>
    \E t \in Thread : pc[t] \in {"unlock", "command", "apply", "lock"}

(* The calls under way have their values reserved, and no value is used    *)
(* before its turn.                                                        *)
CallingInv ==
  /\ IsFiniteSet(Calling)
  /\ value + Cardinality(Calling) <= MaxValue
  /\ ~sleeps => Calling = {}

ValueInv ==
  \A p \in Parameter :
    /\ {queued[p], saved[p], staged[p], active[p], latest[p]} \subseteq
            0..value
    /\ \A t \in Thread : update[t][p] \in 0..value

(* Who transfers: the holder of _updatedParametersMutex, and no call when  *)
(* the device sleeps.                                                      *)
TransferInv ==
  /\ \A t \in Receiver : InSession(t) /\ Setting(t) <=> queueMutex = t
  /\ \A t \in Thread : ~InSession(t) => ~Setting(t)
  /\ sleeps => \A r \in Rpc : ~Setting(r)

(* What is queued is saved, but for those about to save it.                *)
SavedInv == (\A t \in Thread : pc[t] # "save") => saved = queued

(* While a call is between the message and its parameters, no signal is    *)
(* handled, or the two overlap; and what is queued has its message and its *)
(* flag, or a call is about to set the flag.                               *)
FlagInv ==
  sleeps /\ ~overlapped =>
    /\ Calling # {} => ~Signalled /\ pending
    /\ queued # Nothing => pending
    /\ queued # Nothing \/ (\E r \in Rpc : pc[r] = "add") =>
         setFlag \/ \E r \in Rpc : pc[r] = "flag"

(* The value asked for, or a newer one, is in the device for good.         *)
Settled(p) == active[p] >= latest[p] /\ staged[p] >= latest[p]

Saving(p) == \E r \in Rpc : pc[r] = "save" /\ update[r][p] # 0

(* A value is queued until it is settled, and saved, unless its call is    *)
(* about to do that.                                                       *)
QueueInv ==
  sleeps => \A p \in Parameter :
    /\ queued[p] # 0 => queued[p] >= latest[p]
    /\ queued[p] >= latest[p] \/ Settled(p)
    /\ saved[p] # 0 => saved[p] >= latest[p] \/ Saving(p)
    /\ saved[p] >= latest[p] \/ Settled(p) \/ Saving(p)

(* The device is only given an older value than it has when that is        *)
(* queued, and saved, again after a restart.                               *)
OlderInv ==
  sleeps => \A p \in Parameter :
    /\ queued[p] = 0 => staged[p] >= active[p]
    /\ saved[p] = 0 =>
         staged[p] >= active[p] /\ (queued[p] = 0 \/ queued[p] >= staged[p])

(* How far a transfer has got that nothing was lost of.                    *)
SentInv ==
  sleeps => \A t \in Receiver : InSession(t) /\ Setting(t) =>
    \A p \in Parameter :
      /\ update[t][p] \in {0, queued[p]}
      /\ result[t] /\ queued[p] # 0 =>
           /\ pc[t] \in {"unlock", "command"} =>
                update[t][p] = queued[p] \/ staged[p] = queued[p]
           /\ pc[t] = "apply" => staged[p] = queued[p]
           /\ pc[t] \in {"lock", "end"} =>
                staged[p] = queued[p] /\ active[p] = queued[p]

IInv ==
  /\ TypeOK
  /\ CommandInv
  /\ OpenInv
  /\ CallingInv
  /\ ValueInv
  /\ TransferInv
  /\ SavedInv
  /\ FlagInv
  /\ QueueInv
  /\ OlderInv
  /\ SentInv

-----------------------------------------------------------------------------
(* What happens when a command is not acknowledged.                        *)
OnError == {"ignore", "note", "lock", "return"}

(* The parts of an operation of one command, and of one of two.            *)
LEMMA OneCommand ==
  ASSUME NEW k \in OnError, NEW a \in BOOLEAN, NEW l \in BOOLEAN
  PROVE  /\ Len(Operation(<<k>>, a, l).commands) = 1
         /\ Operation(<<k>>, a, l).commands[1] = k
         /\ Operation(<<k>>, a, l).apply = a
         /\ Operation(<<k>>, a, l).lock = l
  BY DEF Operation

(* The same for two commands.                                              *)
LEMMA TwoCommands ==
  ASSUME NEW k, NEW m, NEW a, NEW l
  PROVE  /\ Len(Operation(<<k, m>>, a, l).commands) = 2
         /\ Operation(<<k, m>>, a, l).commands[1] = k
         /\ Operation(<<k, m>>, a, l).commands[2] = m
         /\ Operation(<<k, m>>, a, l).apply = a
         /\ Operation(<<k, m>>, a, l).lock = l
  BY DEF Operation

(* setDeviceConfiguration notes every failure, applies the changes and loc *)
LEMMA SetFacts ==
  ASSUME NEW c \in 1..2
  PROVE  /\ Len(SetDeviceConfiguration(c).commands) = c
         /\ \A i \in 1..c : SetDeviceConfiguration(c).commands[i] = "note"
         /\ SetDeviceConfiguration(c).apply
         /\ SetDeviceConfiguration(c).lock
<1> DEFINE s == [i \in 1..c |-> "note"]
<1>1. s \in Seq({"note"})
  OBVIOUS
<1>2. Len(s) = c
  BY <1>1, LenProperties
<1>3. \A i \in 1..c : s[i] = "note"
  OBVIOUS
<1>4. SetDeviceConfiguration(c) = [commands |-> s, apply |-> TRUE, lock |->
        TRUE]
  BY DEF SetDeviceConfiguration, Operation
<1> HIDE DEF s
<1> QED
  BY <1>2, <1>3, <1>4

(* No other operation that applies changes notes its first failure.        *)
LEMMA OtherFacts ==
  ASSUME NEW o \in OtherOperations \cup {GetDeviceConfiguration}
  PROVE  /\ Len(o.commands) \in 1..2
         /\ \A i \in 1..Len(o.commands) :
              /\ o.commands[i] \in OnError
              /\ ~o.lock => o.commands[i] = "return"
         /\ o.apply \in BOOLEAN /\ o.lock \in BOOLEAN
         /\ o.apply => o.lock
         /\ o.apply => o.commands[1] # "note"
<1>1. \/ \E k \in OnError, a, l \in BOOLEAN :
           /\ o = Operation(<<k>>, a, l)
           /\ a => l /\ k # "note"
           /\ ~l => k = "return"
      \/ \E k, m \in OnError, a \in BOOLEAN :
           o = Operation(<<k, m>>, a, TRUE) /\ k # "note"
  BY DEF OtherOperations, OnError, SetCode, SendInboundLinkTable,
         GetPathInfoThroughPing, GetLinkTable, SetRepeaterLevel,
                 GetDeviceConfiguration, SetRepeaterFilter,
         SetRepeaterFunctions, SetSecurityProfile, SetLinkTable,
         UpdateSecurityProfile
<1>2. CASE \E k \in OnError, a, l \in BOOLEAN :
           /\ o = Operation(<<k>>, a, l)
           /\ a => l /\ k # "note"
           /\ ~l => k = "return"
  BY <1>2, OneCommand
<1>3. CASE \E k, m \in OnError, a \in BOOLEAN :
           o = Operation(<<k, m>>, a, TRUE) /\ k # "note"
  <2>1. PICK k, m \in OnError, a \in BOOLEAN :
          o = Operation(<<k, m>>, a, TRUE) /\ k # "note"
    BY <1>3
  <2>2. o.commands = <<k, m>> /\ o.apply = a /\ o.lock = TRUE
    BY <2>1 DEF Operation
  <2>3. Len(<<k, m>>) = 2 /\ <<k, m>>[1] = k /\ <<k, m>>[2] = m
    OBVIOUS
  <2>4. /\ Len(o.commands) = 2 /\ o.commands[1] = k /\ o.commands[2] = m
    BY <2>2, <2>3
  <2>5. \A i \in 1..2 : o.commands[i] \in OnError
    BY <2>4
  <2>6. o.lock /\ o.apply \in BOOLEAN
    BY <2>2
  <2>7. \A i \in 1..Len(o.commands) :
              /\ o.commands[i] \in OnError
              /\ ~o.lock => o.commands[i] = "return"
    BY <2>4, <2>5, <2>6
  <2>8. Len(o.commands) \in 1..2
    BY <2>4
  <2>9. o.lock \in BOOLEAN
    BY <2>2
  <2>10. o.commands[1] # "note"
    BY <2>1, <2>4
  <2> QED
    BY <2>6, <2>7, <2>8, <2>9, <2>10, Zenon
<1> QED
  BY <1>1, <1>2, <1>3
(* What all operations have in common: they have one or two commands, and  *)
(* one that does not lock at the end returns at the first failure.         *)
LEMMA OperationFacts ==
  ASSUME NEW o \in Operations
  PROVE  /\ Len(o.commands) \in 1..2
         /\ \A i \in 1..Len(o.commands) :
              /\ o.commands[i] \in OnError
              /\ ~o.lock => o.commands[i] = "return"
         /\ o.apply \in BOOLEAN /\ o.lock \in BOOLEAN
         /\ o.apply => o.lock
<1>1. CASE o \in OtherOperations \cup {GetDeviceConfiguration}
  BY <1>1, OtherFacts
<1>2. CASE o \in {SetDeviceConfiguration(c) : c \in 1..2}
  <2>1. PICK c \in 1..2 : o = SetDeviceConfiguration(c)
    BY <1>2
  <2> QED
    BY <2>1, SetFacts DEF OnError
<1> QED
  BY <1>1, <1>2 DEF Operations

(* No other operation sets the configuration.                              *)
LEMMA OthersDoNotSet ==
  ASSUME NEW o \in OtherOperations \cup {GetDeviceConfiguration}, NEW c \in
          1..2
  PROVE  o # SetDeviceConfiguration(c) /\ o \in Operations
<1>1. o \in Operations
  BY DEF Operations
<1>2. 1 \in 1..c /\ SetDeviceConfiguration(c).apply
      /\ \A i \in 1..c : SetDeviceConfiguration(c).commands[i] = "note"
  BY SetFacts
<1>3. o.apply => o.commands[1] # "note"
  BY OtherFacts, Zenon
<1> QED
  BY <1>1, <1>2, <1>3, Zenon

(* The parameters that a command carries.                                  *)
LEMMA CarryEffect ==
  ASSUME TypeOK, NEW t \in Thread, NEW obeys \in BOOLEAN, Carry(t, obeys)
  PROVE  /\ ~Setting(t) => UNCHANGED <<staged, update>>
         /\ Setting(t) => \E u \in Update :
              /\ \A p \in Parameter : u[p] \in {0, update[t][p]}
              /\ ~(step[t] + 1 < Len(Commands(t))) => u = update[t]
              /\ update' = [update EXCEPT ![t] =
                   [p \in Parameter |-> IF u[p] # 0 THEN 0 ELSE update[t][p]]]
              /\ staged' = IF obeys THEN Merge(staged, u) ELSE staged
<1>1. CASE ~Setting(t)
  BY <1>1 DEF Carry
<1>2. CASE Setting(t)
  <2>1. update[t] \in Update /\ DeviceConfigAssumption
    BY DeviceConfigAssumption DEF TypeOK
  <2>2. \A p \in Parameter : [Nothing EXCEPT ![p] = update[t][p]] \in Update
    BY <2>1 DEF Nothing, Update, DeviceConfigAssumption
  <2>3. \A p, q \in Parameter : [Nothing EXCEPT ![p] = update[t][p]][q] \in {0,
          update[t][q]}
    BY DEF Nothing
  <2>4. PICK u \in IF Setting(t) /\ step[t] + 1 < Len(Commands(t))
           THEN {[Nothing EXCEPT ![p] = update[t][p]] :
                   p \in {q \in Parameter : update[t][q] # 0}}
           ELSE {update[t]} :
             /\ staged' = IF obeys THEN Merge(staged, u) ELSE staged
             /\ update' = [update EXCEPT ![t] =
                   [p \in Parameter |-> IF u[p] # 0 THEN 0 ELSE update[t][p]]]
    BY <1>2 DEF Carry, TypeOK
  <2>5. CASE step[t] + 1 < Len(Commands(t))
    <3>1. PICK p \in Parameter : u = [Nothing EXCEPT ![p] = update[t][p]]
      BY <1>2, <2>4, <2>5
    <3> QED
      BY <1>2, <2>2, <2>3, <2>4, <2>5, <3>1
  <2>6. CASE ~(step[t] + 1 < Len(Commands(t)))
    BY <1>2, <2>1, <2>4, <2>6
  <2> QED
    BY <2>5, <2>6
<1> QED
  BY <1>1, <1>2

(* A command of t that takes the session to another place with a result;   *)
(* a transfer that applies its changes has had every command acknowledged. *)
Sends(t, to, res, st) ==
  /\ pc[t] = "command"
  /\ pc' = [pc EXCEPT ![t] = to]
  /\ result' = [result EXCEPT ![t] = res]
  /\ step' = [step EXCEPT ![t] = st]
  /\ res => result[t]
  /\ to = "command" => st < Len(Commands(t))
  /\ ~leftOpen' => ~leftOpen /\ to # "end"
  /\ Setting(t) =>
       /\ to # "end"
       /\ to = "apply" => res
       /\ to = "lock" => ~res
       /\ to # "command" => ~(step[t] + 1 < Len(Commands(t)))
  /\ UNCHANGED <<op, open>>

(* Acknowledged, lost or failed, a command is one of these.                *)
LEMMA SendEffect ==
  ASSUME TypeOK, CommandInv, NEW t \in Thread, SendCommand(t)
  PROVE  \E to \in {"command", "apply", "lock", "end"}, res \in BOOLEAN,
            st \in 0..2 :
           /\ Sends(t, to, res, st)
           /\ leftOpen' \in BOOLEAN
           /\ \E obeys \in BOOLEAN :
                Carry(t, obeys) /\ (res /\ Setting(t) => obeys)
<1>1. pc[t] = "command" /\ step[t] \in 0..2 /\ op[t] \in Operations
      /\ result[t] \in BOOLEAN /\ open \in BOOLEAN /\ leftOpen \in BOOLEAN
  BY DEF SendCommand, CommandAcknowledged, CommandLost, CommandFails, Goto,
       TypeOK, SessionTypeOK
<1>2. Len(Commands(t)) \in 1..2 /\ step[t] < Len(Commands(t)) /\ step[t] + 1
        \in 1..Len(Commands(t))
      /\ step[t] + 1 \in 0..2
  BY <1>1, OperationFacts DEF CommandInv, Commands
<1>3. /\ Commands(t)[step[t] + 1] \in OnError
      /\ ~op[t].lock => Commands(t)[step[t] + 1] = "return"
      /\ op[t].apply \in BOOLEAN /\ op[t].lock \in BOOLEAN
      /\ op[t].apply => op[t].lock
  BY <1>1, <1>2, OperationFacts DEF Commands
<1>4. Setting(t) => op[t].apply /\ op[t].lock /\ Commands(t)[step[t] + 1] =
        "note"
  BY <1>2, SetFacts DEF Setting, Commands
<1>5. UNCHANGED <<op, open>>
  BY DEF SendCommand, CommandAcknowledged, CommandLost, CommandFails
<1> HIDE DEF Commands
<1>6. CASE CommandAcknowledged(t) /\ Carry(t, TRUE)
  <2>1. AfterCommand(t, result[t]) \in {"command", "apply", "lock", "end"}
    BY DEF AfterCommand, Conclusion
  <2>2. Sends(t, AfterCommand(t, result[t]), result[t], step[t] + 1)
    BY <1>1, <1>2, <1>3, <1>4, <1>5, <1>6 DEF CommandAcknowledged, Goto, Sends,
         AfterCommand, Conclusion, TypeOK, SessionTypeOK
  <2>3. leftOpen' \in BOOLEAN
    BY <1>6, <1>1 DEF CommandAcknowledged
  <2>4. \E obeys \in BOOLEAN :
          Carry(t, obeys) /\ (result[t] /\ Setting(t) => obeys)
    BY <1>6, Zenon
  <2> QED
    BY <1>1, <1>2, <2>1, <2>2, <2>3, <2>4, Zenon
<1>7. CASE CommandLost(t) /\ \E obeys \in {FALSE, open} : Carry(t, obeys)
  <2> DEFINE onError == Commands(t)[step[t] + 1]
             res == result[t] /\ onError # "note"
             to == IF onError = "lock" THEN "lock" ELSE AfterCommand(t, res)
  <2>1. to \in {"command", "apply", "lock", "end"}
    BY DEF AfterCommand, Conclusion
  <2>5. leftOpen' \in BOOLEAN
    BY <1>1, <1>7 DEF CommandLost
  <2>6. (res /\ onError # "lock") \in BOOLEAN
    OBVIOUS
  <2>2. Sends(t, to, res /\ onError # "lock", step[t] + 1)
    BY <1>1, <1>2, <1>3, <1>4, <1>5, <1>7 DEF CommandLost, Goto, Sends,
       AfterCommand, Conclusion, TypeOK, SessionTypeOK
  <2>3. \E obeys \in BOOLEAN : Carry(t, obeys)
    BY <1>1, <1>7, Zenon
  <2>4. Setting(t) => ~res
    BY <1>4
  <2> HIDE DEF to, res
  <2> QED
    BY <1>2, <2>1, <2>2, <2>3, <2>4, <2>5, <2>6, Zenon
<1>8. CASE CommandFails(t) /\ Carry(t, FALSE)
  <2>1. Sends(t, "end", FALSE, step[t])
    BY <1>1, <1>2, <1>3, <1>4, <1>5, <1>8 DEF CommandFails, Sends, TypeOK,
         SessionTypeOK
  <2>2. leftOpen' \in BOOLEAN
    BY <1>8 DEF CommandFails
  <2> QED
    BY <1>1, <1>8, <2>1, <2>2
<1> QED
  BY <1>6, <1>7, <1>8 DEF SendCommand
(* How the device and the parameters left to send change with a command of *)
(* a transfer.                                                             *)
Carries(t, to, res, u) ==
  /\ \A p \in Parameter : u[p] \in {0, update[t][p]}
  /\ to # "command" => u = update[t]
  /\ update' = [update EXCEPT ![t] =
       [p \in Parameter |-> IF u[p] # 0 THEN 0 ELSE update[t][p]]]
  /\ staged' \in {staged, Merge(staged, u)}
  /\ res => staged' = Merge(staged, u)

(* A command of a session, whatever becomes of it.                         *)
Places == {"command", "apply", "lock", "end"}

Outcome(t, to, res, st) ==
  /\ Sends(t, to, res, st)
  /\ ~Setting(t) => UNCHANGED <<staged, update>>
  /\ Setting(t) => \E u \in Update : Carries(t, to, res, u)
  /\ leftOpen' \in BOOLEAN
  /\ UNCHANGED <<sleeps, queueVars, active, latest, boundVars, overlapped>>

(* A session that is sending a command sees one of these outcomes.         *)
LEMMA SendCommandEffect ==
  ASSUME TypeOK, CommandInv, NEW t \in Thread, SendCommand(t)
  PROVE  \E to \in Places, res \in BOOLEAN, st \in 0..2 : Outcome(t, to, res,
          st)
<1>0. UNCHANGED <<sleeps, queueVars, active, latest, boundVars, overlapped>>
  BY DEF SendCommand
<1>1. PICK to \in Places, res \in BOOLEAN, st \in 0..2 :
        /\ Sends(t, to, res, st)
        /\ leftOpen' \in BOOLEAN
        /\ \E obeys \in BOOLEAN : Carry(t, obeys) /\ (res /\ Setting(t) =>
                obeys)
  BY SendEffect, Zenon DEF Places
<1>2. PICK obeys \in BOOLEAN : Carry(t, obeys) /\ (res /\ Setting(t) => obeys)
  BY <1>1
<1>3. CASE ~Setting(t)
  <2>1. UNCHANGED <<staged, update>>
    BY <1>2, <1>3, CarryEffect
  <2> QED
    BY <1>0, <1>1, <1>3, <2>1, Zenon DEF Outcome
<1>4. CASE Setting(t)
  <2>1. PICK u \in Update :
              /\ \A p \in Parameter : u[p] \in {0, update[t][p]}
              /\ ~(step[t] + 1 < Len(Commands(t))) => u = update[t]
              /\ update' = [update EXCEPT ![t] =
                   [p \in Parameter |-> IF u[p] # 0 THEN 0 ELSE update[t][p]]]
              /\ staged' = IF obeys THEN Merge(staged, u) ELSE staged
    BY <1>2, <1>4, CarryEffect
  <2>2. Carries(t, to, res, u)
    BY <1>1, <1>2, <1>4, <2>1 DEF Carries, Sends
  <2> QED
    BY <1>0, <1>1, <1>4, <2>2, Zenon DEF Outcome
<1> QED
  BY <1>3, <1>4

(* The parameters a call adds all have the new value.                      *)
LEMMA ValuesEffect ==
  ASSUME TypeOK, NEW r \in Thread, value < MaxValue, Values(r)
  PROVE  /\ value' = value + 1
         /\ value' \in 0..MaxValue
         /\ update'[r] \in Update
         /\ \A p \in Parameter : update'[r][p] \in {0, value + 1}
         /\ \A t \in Thread : t # r => update'[t] = update[t]
         /\ update' \in [Thread -> Update]
<1>1. value' = value + 1 /\ value' \in 0..MaxValue
  BY DeviceConfigAssumption DEF Values, TypeOK
<1>2. PICK ps \in SUBSET Parameter \ {{}} :
        update' = [update EXCEPT ![r] = [p \in Parameter |-> IF p \in ps THEN
                value' ELSE 0]]
  BY DEF Values
<1>3. [p \in Parameter |-> IF p \in ps THEN value' ELSE 0] \in Update
  BY <1>1, DeviceConfigAssumption DEF Update
<1> QED
  BY <1>1, <1>2, <1>3 DEF TypeOK

(* A configuration is sent in one or two commands.                         *)
LEMMA ChunksFacts == \A u : Chunks(u) \subseteq 1..2
  BY DEF Chunks

(* Adding parameters keeps those that are not set again.                   *)
LEMMA UpdateFacts ==
  /\ Nothing \in Update
  /\ \A p \in Parameter : Nothing[p] = 0
  /\ \A u, v \in Update :
       /\ Merge(u, v) \in Update
       /\ \A p \in Parameter :
            Merge(u, v)[p] = IF v[p] # 0 THEN v[p] ELSE u[p]
  BY DeviceConfigAssumption DEF Nothing, Update, Merge

(* The operations that are started are operations.                         *)
LEMMA StartType ==
  ASSUME SessionTypeOK, NEW t \in Thread, NEW from, NEW o \in Operations,
         Start(t, from, o)
  PROVE  SessionTypeOK'
  BY DEF SessionTypeOK, Start, Goto

(* A session that ends leaves its place to the next.                       *)
LEMMA EndType ==
  ASSUME SessionTypeOK, NEW t \in Thread, NEW to, End(t, to)
  PROVE  SessionTypeOK'
<1>1. GetLinkTable \in Operations
  BY DEF Operations, OtherOperations
<1> QED
  BY <1>1 DEF SessionTypeOK, End, Goto

(* The transfer is an operation.                                           *)
LEMMA SetIsOperation ==
  ASSUME NEW c \in 1..2
  PROVE  SetDeviceConfiguration(c) \in Operations
  BY DEF Operations

(* What a thread without a session has, or reads with, is no transfer.     *)
LEMMA NoOperation ==
  /\ GetLinkTable \in OtherOperations
  /\ \A c \in 1..2 : GetLinkTable # SetDeviceConfiguration(c)
  /\ \A c \in 1..2 : GetDeviceConfiguration # SetDeviceConfiguration(c)
  /\ {GetLinkTable, GetDeviceConfiguration} \subseteq Operations
<1>1. GetLinkTable \in OtherOperations
  BY DEF OtherOperations
<1> QED
  BY <1>1, OthersDoNotSet DEF Operations

(* A call that is under way has a value to take.                           *)
LEMMA ReservedValue ==
  ASSUME TypeOK, CallingInv, NEW r \in Calling
  PROVE  value < MaxValue
<1>1. Cardinality(Calling) \in Nat
  BY FS_CardinalityType DEF CallingInv
<1>2. Cardinality(Calling) # 0
  BY FS_EmptySet DEF CallingInv
<1> QED
  BY <1>1, <1>2, DeviceConfigAssumption DEF CallingInv, TypeOK

(* A session that was unlocked has a command to send.                      *)
LEMMA FirstCommand ==
  ASSUME TypeOK, NEW t \in Thread
  PROVE  0 < Len(Commands(t))
<1>1. op[t] \in Operations
  BY DEF TypeOK, SessionTypeOK
<1>2. Len(op[t].commands) \in 1..2
  BY <1>1, OperationFacts
<1> QED
  BY <1>2 DEF Commands

-----------------------------------------------------------------------------
(* The types need CommandInv and CallingInv: the commands of a session and  *)
(* the values of the calls are counted.                                    *)
LEMMA TypeStep ==
  TypeOK /\ CommandInv /\ CallingInv /\ [Next]_vars => TypeOK'
<1> SUFFICES ASSUME TypeOK, CommandInv, CallingInv, [Next]_vars
             PROVE  TypeOK'
  OBVIOUS
<1> USE DeviceConfigAssumption DEF TypeOK, SessionTypeOK, sessionVars,
   queueVars, deviceVars, boundVars
<1>1. ASSUME NEW r \in Rpc, SetNow(r) PROVE TypeOK'
  <2>1. value' = value + 1 /\ value' \in 0..MaxValue /\ update' \in [Thread ->
          Update]
    BY <1>1, ValuesEffect DEF SetNow
  <2>2. PICK c \in 1..2 : Start(r, "idle", SetDeviceConfiguration(c))
    BY <1>1, ChunksFacts DEF SetNow
  <2>3. SessionTypeOK'
    BY <2>2, StartType, SetIsOperation
  <2> QED
    BY <1>1, <2>1, <2>2, <2>3 DEF SetNow, Start, Goto
<1>2. ASSUME NEW r \in Rpc, Queue(r) PROVE TypeOK'
  BY <1>2 DEF Queue, Goto, Signalled
<1>3. ASSUME NEW r \in Rpc, SetFlag(r) PROVE TypeOK'
  BY <1>3 DEF SetFlag, Goto
<1>4. ASSUME NEW r \in Rpc, AddParameters(r) PROVE TypeOK'
  <2>1. value < MaxValue
    BY <1>4, ReservedValue DEF AddParameters, Calling, Goto
  <2>2. /\ value' \in 0..MaxValue /\ update' \in [Thread -> Update]
        /\ update'[r] \in Update
    BY <1>4, <2>1, ValuesEffect DEF AddParameters
  <2>3. queued' \in Update /\ latest' \in Update
    BY <1>4, <2>2, UpdateFacts DEF AddParameters
  <2> QED
    BY <1>4, <2>2, <2>3 DEF AddParameters, Goto
<1>5. ASSUME NEW r \in Rpc, QueueGet(r) PROVE TypeOK'
  <2>1. SessionTypeOK'
    BY <1>5, StartType, NoOperation DEF QueueGet
  <2> QED
    BY <1>5, <2>1 DEF QueueGet, Start, Goto
<1>6. ASSUME NEW r \in Rpc, OtherSession(r) PROVE TypeOK'
  <2>1. PICK o \in OtherOperations : Start(r, "idle", o)
    BY <1>6 DEF OtherSession
  <2>2. o \in Operations
    BY DEF Operations
  <2>3. SessionTypeOK'
    BY <2>1, <2>2, StartType
  <2> QED
    BY <1>6, <2>1, <2>3 DEF OtherSession, Start, Goto
<1>7. ASSUME NEW t \in Receiver, Signal(t) PROVE TypeOK'
  BY <1>7 DEF Signal, Goto
<1>8. ASSUME NEW t \in Receiver, Transfer(t) PROVE TypeOK'
  <2>1. PICK c \in 1..2 : Start(t, "transfer", SetDeviceConfiguration(c))
    BY <1>8, ChunksFacts DEF Transfer
  <2>2. SessionTypeOK'
    BY <2>1, StartType, SetIsOperation
  <2> QED
    BY <1>8, <2>1, <2>2 DEF Transfer, Start, Goto
<1>9. ASSUME NEW t \in Receiver, AfterTransfer(t) PROVE TypeOK'
  <2>1. SessionTypeOK'
    BY <1>9, StartType, NoOperation DEF AfterTransfer, Goto
  <2> QED
    BY <1>9, <2>1 DEF AfterTransfer, Start, Goto
<1>10. ASSUME NEW t \in Thread, SendCommand(t) PROVE TypeOK'
  <2>1. PICK to \in Places, res \in BOOLEAN, st \in 0..2 :
          Outcome(t, to, res, st)
    BY <1>10, SendCommandEffect
  <2> USE DEF Outcome, Places
  <2>3. SessionTypeOK'
    BY <2>1 DEF Sends
  <2>4. pc' \in [Thread -> {"idle", "flag", "add", "save", "signal",
          "transfer",
                       "after", "unlock", "command", "apply", "lock", "end"}]
    BY <2>1 DEF Sends
  <2>5. update' \in [Thread -> Update] /\ staged' \in Update
    <3>1. CASE ~Setting(t)
      BY <2>1, <3>1
    <3>2. CASE Setting(t)
      <4>1. PICK u \in Update : Carries(t, to, res, u)
        BY <2>1, <3>2
      <4>2. [p \in Parameter |-> IF u[p] # 0 THEN 0 ELSE update[t][p]] \in
              Update
        BY DEF Update
      <4> QED
        BY <4>1, <4>2, UpdateFacts DEF Carries
    <3> QED
      BY <3>1, <3>2
  <2> QED
    BY <2>1, <2>3, <2>4, <2>5
<1>11. ASSUME NEW t \in Thread, ApplyChanges(t) PROVE TypeOK'
  BY <1>11 DEF ApplyChanges, ChangesApplied, ApplyFails, Goto
<1>12. ASSUME NEW t \in Thread, UnlockOrLock(t) PROVE TypeOK'
  BY <1>12 DEF UnlockOrLock, Unlock, Lock, Goto
<1>13. ASSUME NEW t \in Thread, EndSet(t) PROVE TypeOK'
  <2>1. SessionTypeOK'
    BY <1>13, EndType DEF EndSet
  <2> QED
    BY <1>13, <2>1, UpdateFacts DEF EndSet, End, Goto
<1>14. ASSUME NEW t \in Thread, EndOther(t) PROVE TypeOK'
  <2>1. SessionTypeOK'
    BY <1>14, EndType DEF EndOther
  <2> QED
    BY <1>14, <2>1 DEF EndOther, End, Goto
<1>15. ASSUME NEW t \in Thread, Save(t) PROVE TypeOK'
  BY <1>15, UpdateFacts DEF Save, Goto
<1>16. CASE Restart
  <2>1. SessionTypeOK'
    BY <1>16, NoOperation DEF Restart
  <2>2. latest' \in Update
    <3>1. \A p \in Parameter : {saved[p], active[p], latest[p]} \subseteq
            0..MaxValue
      BY DEF Update
    <3>2. latest' = [p \in Parameter |->
       IF \E r \in Rpc : pc[r] = "save" /\ update[r][p] # 0
         THEN IF saved[p] # 0 THEN saved[p] ELSE active[p]
         ELSE latest[p]]
      BY <1>16 DEF Restart
    <3> QED
      BY <3>1, <3>2 DEF Update
  <2>3. update' \in [Thread -> Update]
    BY <1>16, UpdateFacts DEF Restart
  <2> QED
    BY <1>16, <2>1, <2>2, <2>3 DEF Restart
<1>17. CASE UNCHANGED vars
  BY <1>17 DEF vars
<1> QED
  BY <1>1, <1>2, <1>3, <1>4, <1>5, <1>6, <1>7, <1>8, <1>9, <1>10, <1>11,
     <1>12, <1>13, <1>14, <1>15, <1>16, <1>17 DEF Next, SessionStep

(* A session sends its commands one by one.                                *)
LEMMA CommandStep ==
  TypeOK /\ CommandInv /\ [Next]_vars => CommandInv'
<1> SUFFICES ASSUME TypeOK, CommandInv, [Next]_vars
             PROVE  CommandInv'
  OBVIOUS
<1> USE DeviceConfigAssumption DEF TypeOK, SessionTypeOK, CommandInv,
   Commands, sessionVars, queueVars, deviceVars, boundVars
<1>1. ASSUME NEW r \in Rpc, SetNow(r) PROVE CommandInv'
  BY <1>1 DEF SetNow, Start, Goto
<1>2. ASSUME NEW r \in Rpc, Queue(r) PROVE CommandInv'
  BY <1>2 DEF Queue, Goto
<1>3. ASSUME NEW r \in Rpc, SetFlag(r) PROVE CommandInv'
  BY <1>3 DEF SetFlag, Goto
<1>4. ASSUME NEW r \in Rpc, AddParameters(r) PROVE CommandInv'
  BY <1>4 DEF AddParameters, Goto
<1>5. ASSUME NEW r \in Rpc, QueueGet(r) PROVE CommandInv'
  BY <1>5 DEF QueueGet, Start, Goto
<1>6. ASSUME NEW r \in Rpc, OtherSession(r) PROVE CommandInv'
  BY <1>6 DEF OtherSession, Start, Goto
<1>7. ASSUME NEW t \in Receiver, Signal(t) PROVE CommandInv'
  BY <1>7 DEF Signal, Goto
<1>8. ASSUME NEW t \in Receiver, Transfer(t) PROVE CommandInv'
  BY <1>8 DEF Transfer, Start, Goto
<1>9. ASSUME NEW t \in Receiver, AfterTransfer(t) PROVE CommandInv'
  BY <1>9 DEF AfterTransfer, Start, Goto
<1>10. ASSUME NEW t \in Thread, SendCommand(t) PROVE CommandInv'
  <2>1. PICK to \in Places, res \in BOOLEAN, st \in 0..2 :
          Outcome(t, to, res, st)
    BY <1>10, SendCommandEffect
  <2> USE DEF Outcome, Places
  <2> QED
    BY <2>1 DEF Sends
<1>11. ASSUME NEW t \in Thread, ApplyChanges(t) PROVE CommandInv'
  BY <1>11 DEF ApplyChanges, ChangesApplied, ApplyFails, Goto
<1>12. ASSUME NEW t \in Thread, UnlockOrLock(t) PROVE CommandInv'
  <2>1. CASE Unlock(t)
    BY <2>1, FirstCommand DEF Unlock, Goto
  <2>2. CASE Lock(t)
    BY <2>2 DEF Lock, Goto
  <2> QED
    BY <1>12, <2>1, <2>2 DEF UnlockOrLock
<1>13. ASSUME NEW t \in Thread, EndSet(t) PROVE CommandInv'
  BY <1>13 DEF EndSet, End, Goto
<1>14. ASSUME NEW t \in Thread, EndOther(t) PROVE CommandInv'
  BY <1>14 DEF EndOther, End, Goto
<1>15. ASSUME NEW t \in Thread, Save(t) PROVE CommandInv'
  BY <1>15 DEF Save, Goto
<1>16. CASE Restart
  BY <1>16 DEF Restart
<1>17. CASE UNCHANGED vars
  BY <1>17 DEF vars
<1> QED
  BY <1>1, <1>2, <1>3, <1>4, <1>5, <1>6, <1>7, <1>8, <1>9, <1>10, <1>11,
     <1>12, <1>13, <1>14, <1>15, <1>16, <1>17 DEF Next, SessionStep

(* A session that ends without locking the device leaves it open.          *)
LEMMA OpenStep ==
  TypeOK /\ CommandInv /\ OpenInv /\ [Next]_vars => OpenInv'
<1> SUFFICES ASSUME TypeOK, CommandInv, OpenInv, [Next]_vars
             PROVE  OpenInv'
  OBVIOUS
<1> USE DeviceConfigAssumption DEF TypeOK, SessionTypeOK, OpenInv,
   sessionVars, queueVars, deviceVars, boundVars
<1>1. ASSUME NEW r \in Rpc, SetNow(r) PROVE OpenInv'
  BY <1>1 DEF SetNow, Start, Goto
<1>2. ASSUME NEW r \in Rpc, Queue(r) PROVE OpenInv'
  BY <1>2 DEF Queue, Goto
<1>3. ASSUME NEW r \in Rpc, SetFlag(r) PROVE OpenInv'
  BY <1>3 DEF SetFlag, Goto
<1>4. ASSUME NEW r \in Rpc, AddParameters(r) PROVE OpenInv'
  BY <1>4 DEF AddParameters, Goto
<1>5. ASSUME NEW r \in Rpc, QueueGet(r) PROVE OpenInv'
  BY <1>5 DEF QueueGet, Start, Goto
<1>6. ASSUME NEW r \in Rpc, OtherSession(r) PROVE OpenInv'
  BY <1>6 DEF OtherSession, Start, Goto
<1>7. ASSUME NEW t \in Receiver, Signal(t) PROVE OpenInv'
  BY <1>7 DEF Signal, Goto
<1>8. ASSUME NEW t \in Receiver, Transfer(t) PROVE OpenInv'
  BY <1>8 DEF Transfer, Start, Goto
<1>9. ASSUME NEW t \in Receiver, AfterTransfer(t) PROVE OpenInv'
  BY <1>9 DEF AfterTransfer, Start, Goto
<1>10. ASSUME NEW t \in Thread, SendCommand(t) PROVE OpenInv'
  <2>1. PICK to \in Places, res \in BOOLEAN, st \in 0..2 :
          Outcome(t, to, res, st)
    BY <1>10, SendCommandEffect
  <2> USE DEF Outcome, Places
  <2> QED
    BY <2>1 DEF Sends
<1>11. ASSUME NEW t \in Thread, ApplyChanges(t) PROVE OpenInv'
  BY <1>11 DEF ApplyChanges, ChangesApplied, ApplyFails, Goto
<1>12. ASSUME NEW t \in Thread, UnlockOrLock(t) PROVE OpenInv'
  BY <1>12 DEF UnlockOrLock, Unlock, Lock, Goto
<1>13. ASSUME NEW t \in Thread, EndSet(t) PROVE OpenInv'
  BY <1>13 DEF EndSet, End, Goto
<1>14. ASSUME NEW t \in Thread, EndOther(t) PROVE OpenInv'
  BY <1>14 DEF EndOther, End, Goto
<1>15. ASSUME NEW t \in Thread, Save(t) PROVE OpenInv'
  BY <1>15 DEF Save, Goto
<1>16. CASE Restart
  BY <1>16 DEF Restart
<1>17. CASE UNCHANGED vars
  BY <1>17 DEF vars
<1> QED
  BY <1>1, <1>2, <1>3, <1>4, <1>5, <1>6, <1>7, <1>8, <1>9, <1>10, <1>11,
     <1>12, <1>13, <1>14, <1>15, <1>16, <1>17 DEF Next, SessionStep

(* A call reserves a value before it takes one.                            *)
LEMMA CallingStep ==
  TypeOK /\ CommandInv /\ CallingInv /\ [Next]_vars => CallingInv'
<1> SUFFICES ASSUME TypeOK, CommandInv, CallingInv, [Next]_vars
             PROVE  CallingInv'
  OBVIOUS
<1> USE DeviceConfigAssumption DEF TypeOK, SessionTypeOK, CallingInv,
   sessionVars, queueVars, deviceVars, boundVars
<1>1. ASSUME NEW r \in Rpc, SetNow(r) PROVE CallingInv'
  <2>1. Calling' = {} /\ value' = value + 1 /\ value < MaxValue /\ ~sleeps'
    BY <1>1, ValuesEffect DEF SetNow, Start, Goto, Calling
  <2> QED
    BY <2>1, FS_EmptySet
<1>2. ASSUME NEW r \in Rpc, Queue(r) PROVE CallingInv'
  <2>1. Calling' = Calling \cup {r} /\ r \notin Calling
    BY <1>2 DEF Queue, Goto, Calling
  <2>2. IsFiniteSet(Calling') /\ Cardinality(Calling') = Cardinality(Calling) +
          1
    BY <2>1, FS_AddElement
  <2>3. value' = value /\ sleeps' /\ value + Cardinality(Calling) < MaxValue
    BY <1>2 DEF Queue, Calling
  <2>4. Cardinality(Calling) \in Nat
    BY FS_CardinalityType
  <2> QED
    BY <2>2, <2>3, <2>4
<1>3. ASSUME NEW r \in Rpc, SetFlag(r) PROVE CallingInv'
  BY <1>3 DEF SetFlag, Goto, Calling
<1>4. ASSUME NEW r \in Rpc, AddParameters(r) PROVE CallingInv'
  <2>1. Calling' = Calling \ {r} /\ r \in Calling
    BY <1>4 DEF AddParameters, Goto, Calling
  <2>2. IsFiniteSet(Calling') /\ Cardinality(Calling') = Cardinality(Calling) -
          1
    BY <2>1, FS_RemoveElement
  <2>3. value' = value + 1 /\ UNCHANGED sleeps
    BY <1>4, <2>1, ReservedValue, ValuesEffect DEF AddParameters
  <2>4. Cardinality(Calling) \in Nat
    BY FS_CardinalityType
  <2> QED
    BY <2>1, <2>2, <2>3, <2>4
<1>5. ASSUME NEW r \in Rpc, QueueGet(r) PROVE CallingInv'
  BY <1>5 DEF QueueGet, Start, Goto, Calling
<1>6. ASSUME NEW r \in Rpc, OtherSession(r) PROVE CallingInv'
  BY <1>6 DEF OtherSession, Start, Goto, Calling
<1>7. ASSUME NEW t \in Receiver, Signal(t) PROVE CallingInv'
  BY <1>7 DEF Signal, Goto, Calling
<1>8. ASSUME NEW t \in Receiver, Transfer(t) PROVE CallingInv'
  BY <1>8 DEF Transfer, Start, Goto, Calling
<1>9. ASSUME NEW t \in Receiver, AfterTransfer(t) PROVE CallingInv'
  BY <1>9 DEF AfterTransfer, Start, Goto, Calling
<1>10. ASSUME NEW t \in Thread, SendCommand(t) PROVE CallingInv'
  <2>1. PICK to \in Places, res \in BOOLEAN, st \in 0..2 :
          Outcome(t, to, res, st)
    BY <1>10, SendCommandEffect
  <2> USE DEF Outcome, Places
  <2> QED
    BY <2>1 DEF Sends, Calling
<1>11. ASSUME NEW t \in Thread, ApplyChanges(t) PROVE CallingInv'
  BY <1>11 DEF ApplyChanges, ChangesApplied, ApplyFails, Goto, Calling
<1>12. ASSUME NEW t \in Thread, UnlockOrLock(t) PROVE CallingInv'
  BY <1>12 DEF UnlockOrLock, Unlock, Lock, Goto, Calling
<1>13. ASSUME NEW t \in Thread, EndSet(t) PROVE CallingInv'
  BY <1>13 DEF EndSet, End, Goto, Calling
<1>14. ASSUME NEW t \in Thread, EndOther(t) PROVE CallingInv'
  BY <1>14 DEF EndOther, End, Goto, Calling
<1>15. ASSUME NEW t \in Thread, Save(t) PROVE CallingInv'
  BY <1>15 DEF Save, Goto, Calling
<1>16. CASE Restart
  <2>1. Calling' = {} /\ value' = value
    BY <1>16 DEF Restart, Calling
  <2> QED
    BY <2>1, FS_EmptySet, FS_CardinalityType
<1>17. CASE UNCHANGED vars
  BY <1>17 DEF vars, Calling
<1> QED
  BY <1>1, <1>2, <1>3, <1>4, <1>5, <1>6, <1>7, <1>8, <1>9, <1>10, <1>11,
     <1>12, <1>13, <1>14, <1>15, <1>16, <1>17 DEF Next, SessionStep

(* Values only travel.                                                     *)
LEMMA ValueStep ==
  TypeOK /\ CommandInv /\ CallingInv /\ ValueInv /\ [Next]_vars =>
     ValueInv'
<1> SUFFICES ASSUME TypeOK, CommandInv, CallingInv, ValueInv, [Next]_vars
             PROVE  ValueInv'
  OBVIOUS
<1> USE DeviceConfigAssumption DEF TypeOK, SessionTypeOK, ValueInv,
   sessionVars, queueVars, deviceVars, boundVars
<1>1. ASSUME NEW r \in Rpc, SetNow(r) PROVE ValueInv'
  <2>1. /\ value' = value + 1
        /\ \A p \in Parameter : update'[r][p] \in {0, value + 1}
        /\ \A t \in Thread : t # r => update'[t] = update[t]
    BY <1>1, ValuesEffect DEF SetNow
  <2> QED
    BY <1>1, <2>1 DEF SetNow
<1>2. ASSUME NEW r \in Rpc, Queue(r) PROVE ValueInv'
  BY <1>2 DEF Queue, Goto
<1>3. ASSUME NEW r \in Rpc, SetFlag(r) PROVE ValueInv'
  BY <1>3 DEF SetFlag, Goto
<1>4. ASSUME NEW r \in Rpc, AddParameters(r) PROVE ValueInv'
  <2>1. value < MaxValue
    BY <1>4, ReservedValue DEF AddParameters, Calling, Goto
  <2>2. /\ value' = value + 1 /\ update'[r] \in Update
        /\ \A p \in Parameter : update'[r][p] \in {0, value + 1}
        /\ \A t \in Thread : t # r => update'[t] = update[t]
    BY <1>4, <2>1, ValuesEffect DEF AddParameters
  <2>3. \A p \in Parameter : {queued'[p], latest'[p]} \subseteq 0..value'
    BY <1>4, <2>2, UpdateFacts DEF AddParameters
  <2> QED
    BY <1>4, <2>2, <2>3 DEF AddParameters
<1>5. ASSUME NEW r \in Rpc, QueueGet(r) PROVE ValueInv'
  BY <1>5 DEF QueueGet, Start, Goto
<1>6. ASSUME NEW r \in Rpc, OtherSession(r) PROVE ValueInv'
  BY <1>6 DEF OtherSession, Start, Goto
<1>7. ASSUME NEW t \in Receiver, Signal(t) PROVE ValueInv'
  BY <1>7 DEF Signal, Goto
<1>8. ASSUME NEW t \in Receiver, Transfer(t) PROVE ValueInv'
  BY <1>8 DEF Transfer, Start, Goto
<1>9. ASSUME NEW t \in Receiver, AfterTransfer(t) PROVE ValueInv'
  BY <1>9 DEF AfterTransfer, Start, Goto
<1>10. ASSUME NEW t \in Thread, SendCommand(t) PROVE ValueInv'
  <2>1. PICK to \in Places, res \in BOOLEAN, st \in 0..2 :
          Outcome(t, to, res, st)
    BY <1>10, SendCommandEffect
  <2> USE DEF Outcome, Places
  <2>3. CASE ~Setting(t)
    BY <2>1, <2>3
  <2>4. CASE Setting(t)
    <3>1. PICK u \in Update : Carries(t, to, res, u)
      BY <2>1, <2>4
    <3>2. \A p \in Parameter : u[p] \in 0..value /\ Merge(staged, u)[p] \in
            0..value
      BY <3>1, UpdateFacts DEF Carries
    <3>3. \A p \in Parameter : staged'[p] \in 0..value
      BY <3>1, <3>2 DEF Carries
    <3>4. \A p \in Parameter, x \in Thread : update'[x][p] \in 0..value
      BY <3>1 DEF Carries
    <3> QED
      BY <2>1, <3>3, <3>4
  <2> QED
    BY <2>3, <2>4
<1>11. ASSUME NEW t \in Thread, ApplyChanges(t) PROVE ValueInv'
  BY <1>11 DEF ApplyChanges, ChangesApplied, ApplyFails, Goto
<1>12. ASSUME NEW t \in Thread, UnlockOrLock(t) PROVE ValueInv'
  BY <1>12 DEF UnlockOrLock, Unlock, Lock, Goto
<1>13. ASSUME NEW t \in Thread, EndSet(t) PROVE ValueInv'
  <2>1. \A p \in Parameter : queued'[p] \in 0..value
    BY <1>13, UpdateFacts DEF EndSet
  <2>2. \A p \in Parameter, x \in Thread : update'[x][p] \in 0..value
    BY <1>13, UpdateFacts DEF EndSet
  <2> QED
    BY <1>13, <2>1, <2>2 DEF EndSet
<1>14. ASSUME NEW t \in Thread, EndOther(t) PROVE ValueInv'
  BY <1>14 DEF EndOther, End, Goto
<1>15. ASSUME NEW t \in Thread, Save(t) PROVE ValueInv'
  BY <1>15, UpdateFacts DEF Save
<1>16. CASE Restart
  <2>1. \A p \in Parameter : latest'[p] \in 0..value
    BY <1>16 DEF Restart
  <2>2. \A p \in Parameter, x \in Thread : update'[x][p] \in 0..value
    BY <1>16, UpdateFacts DEF Restart
  <2> QED
    BY <1>16, <2>1, <2>2 DEF Restart
<1>17. CASE UNCHANGED vars
  BY <1>17 DEF vars
<1> QED
  BY <1>1, <1>2, <1>3, <1>4, <1>5, <1>6, <1>7, <1>8, <1>9, <1>10, <1>11,
     <1>12, <1>13, <1>14, <1>15, <1>16, <1>17 DEF Next, SessionStep

(* The mutex is held for the whole of a transfer.                          *)
LEMMA TransferStep ==
  TypeOK /\ CommandInv /\ TransferInv /\ [Next]_vars => TransferInv'
<1> SUFFICES ASSUME TypeOK, CommandInv, TransferInv, [Next]_vars
             PROVE  TransferInv'
  OBVIOUS
<1> USE DeviceConfigAssumption DEF TypeOK, SessionTypeOK, TransferInv,
   InSession, Setting, sessionVars, queueVars, deviceVars, boundVars
<1>1. ASSUME NEW r \in Rpc, SetNow(r) PROVE TransferInv'
  BY <1>1 DEF SetNow, Start, Goto
<1>2. ASSUME NEW r \in Rpc, Queue(r) PROVE TransferInv'
  BY <1>2 DEF Queue, Goto
<1>3. ASSUME NEW r \in Rpc, SetFlag(r) PROVE TransferInv'
  BY <1>3 DEF SetFlag, Goto
<1>4. ASSUME NEW r \in Rpc, AddParameters(r) PROVE TransferInv'
  BY <1>4 DEF AddParameters, Goto
<1>5. ASSUME NEW r \in Rpc, QueueGet(r) PROVE TransferInv'
  BY <1>5, NoOperation DEF QueueGet, Start, Goto
<1>6. ASSUME NEW r \in Rpc, OtherSession(r) PROVE TransferInv'
  <2>1. PICK o \in OtherOperations : Start(r, "idle", o)
    BY <1>6 DEF OtherSession
  <2>2. \A c \in 1..2 : o # SetDeviceConfiguration(c)
    BY OthersDoNotSet
  <2> QED
    BY <1>6, <2>1, <2>2 DEF OtherSession, Start, Goto
<1>7. ASSUME NEW t \in Receiver, Signal(t) PROVE TransferInv'
  BY <1>7 DEF Signal, Goto
<1>8. ASSUME NEW t \in Receiver, Transfer(t) PROVE TransferInv'
  <2>1. PICK c \in 1..2 : Start(t, "transfer", SetDeviceConfiguration(c))
    BY <1>8, ChunksFacts DEF Transfer
  <2> QED
    BY <1>8, <2>1 DEF Transfer, Start, Goto
<1>9. ASSUME NEW t \in Receiver, AfterTransfer(t) PROVE TransferInv'
  BY <1>9, NoOperation DEF AfterTransfer, Start, Goto
<1>10. ASSUME NEW t \in Thread, SendCommand(t) PROVE TransferInv'
  <2>1. PICK to \in Places, res \in BOOLEAN, st \in 0..2 :
          Outcome(t, to, res, st)
    BY <1>10, SendCommandEffect
  <2> USE DEF Outcome, Places
  <2> QED
    BY <2>1 DEF Sends
<1>11. ASSUME NEW t \in Thread, ApplyChanges(t) PROVE TransferInv'
  BY <1>11 DEF ApplyChanges, ChangesApplied, ApplyFails, Goto
<1>12. ASSUME NEW t \in Thread, UnlockOrLock(t) PROVE TransferInv'
  BY <1>12 DEF UnlockOrLock, Unlock, Lock, Goto
<1>13. ASSUME NEW t \in Thread, EndSet(t) PROVE TransferInv'
  BY <1>13, NoOperation DEF EndSet, End, Goto
<1>14. ASSUME NEW t \in Thread, EndOther(t) PROVE TransferInv'
  BY <1>14, NoOperation DEF EndOther, End, Goto
<1>15. ASSUME NEW t \in Thread, Save(t) PROVE TransferInv'
  BY <1>15 DEF Save, Goto
<1>16. CASE Restart
  BY <1>16, NoOperation DEF Restart
<1>17. CASE UNCHANGED vars
  BY <1>17 DEF vars
<1> QED
  BY <1>1, <1>2, <1>3, <1>4, <1>5, <1>6, <1>7, <1>8, <1>9, <1>10, <1>11,
     <1>12, <1>13, <1>14, <1>15, <1>16, <1>17 DEF Next, SessionStep

(* Whoever changes the queue saves it.                                     *)
LEMMA SavedStep ==
  TypeOK /\ CommandInv /\ SavedInv /\ [Next]_vars => SavedInv'
<1> SUFFICES ASSUME TypeOK, CommandInv, SavedInv, [Next]_vars
             PROVE  SavedInv'
  OBVIOUS
<1> USE DeviceConfigAssumption DEF TypeOK, SessionTypeOK, SavedInv,
   sessionVars, queueVars, deviceVars, boundVars
<1>1. ASSUME NEW r \in Rpc, SetNow(r) PROVE SavedInv'
  BY <1>1 DEF SetNow, Start, Goto
<1>2. ASSUME NEW r \in Rpc, Queue(r) PROVE SavedInv'
  BY <1>2 DEF Queue, Goto
<1>3. ASSUME NEW r \in Rpc, SetFlag(r) PROVE SavedInv'
  BY <1>3 DEF SetFlag, Goto
<1>4. ASSUME NEW r \in Rpc, AddParameters(r) PROVE SavedInv'
  BY <1>4 DEF AddParameters, Goto
<1>5. ASSUME NEW r \in Rpc, QueueGet(r) PROVE SavedInv'
  BY <1>5 DEF QueueGet, Start, Goto
<1>6. ASSUME NEW r \in Rpc, OtherSession(r) PROVE SavedInv'
  BY <1>6 DEF OtherSession, Start, Goto
<1>7. ASSUME NEW t \in Receiver, Signal(t) PROVE SavedInv'
  BY <1>7 DEF Signal, Goto
<1>8. ASSUME NEW t \in Receiver, Transfer(t) PROVE SavedInv'
  BY <1>8 DEF Transfer, Start, Goto
<1>9. ASSUME NEW t \in Receiver, AfterTransfer(t) PROVE SavedInv'
  BY <1>9 DEF AfterTransfer, Start, Goto
<1>10. ASSUME NEW t \in Thread, SendCommand(t) PROVE SavedInv'
  <2>1. PICK to \in Places, res \in BOOLEAN, st \in 0..2 :
          Outcome(t, to, res, st)
    BY <1>10, SendCommandEffect
  <2> USE DEF Outcome, Places
  <2> QED
    BY <2>1 DEF Sends
<1>11. ASSUME NEW t \in Thread, ApplyChanges(t) PROVE SavedInv'
  BY <1>11 DEF ApplyChanges, ChangesApplied, ApplyFails, Goto
<1>12. ASSUME NEW t \in Thread, UnlockOrLock(t) PROVE SavedInv'
  BY <1>12 DEF UnlockOrLock, Unlock, Lock, Goto
<1>13. ASSUME NEW t \in Thread, EndSet(t) PROVE SavedInv'
  BY <1>13 DEF EndSet, End, Goto
<1>14. ASSUME NEW t \in Thread, EndOther(t) PROVE SavedInv'
  BY <1>14 DEF EndOther, End, Goto
<1>15. ASSUME NEW t \in Thread, Save(t) PROVE SavedInv'
  BY <1>15 DEF Save, Goto
<1>16. CASE Restart
  BY <1>16 DEF Restart
<1>17. CASE UNCHANGED vars
  BY <1>17 DEF vars
<1> QED
  BY <1>1, <1>2, <1>3, <1>4, <1>5, <1>6, <1>7, <1>8, <1>9, <1>10, <1>11,
     <1>12, <1>13, <1>14, <1>15, <1>16, <1>17 DEF Next, SessionStep

(* The flag and the message fall with a transfer only.                     *)
LEMMA FlagStep ==
  TypeOK /\ CommandInv /\ CallingInv /\ TransferInv /\ SavedInv /\ FlagInv
     /\ [Next]_vars => FlagInv'
<1> SUFFICES ASSUME TypeOK, CommandInv, CallingInv, TransferInv, SavedInv,
                    FlagInv, [Next]_vars
             PROVE  FlagInv'
  OBVIOUS
<1> USE DeviceConfigAssumption DEF TypeOK, SessionTypeOK, CallingInv,
   TransferInv, SavedInv, FlagInv, Calling, Signalled, InSession,
   sessionVars, queueVars, deviceVars, boundVars
<1>1. ASSUME NEW r \in Rpc, SetNow(r) PROVE FlagInv'
  BY <1>1 DEF SetNow, Start, Goto
<1>2. ASSUME NEW r \in Rpc, Queue(r) PROVE FlagInv'
  BY <1>2 DEF Queue, Goto
<1>3. ASSUME NEW r \in Rpc, SetFlag(r) PROVE FlagInv'
  BY <1>3 DEF SetFlag, Goto
<1>4. ASSUME NEW r \in Rpc, AddParameters(r) PROVE FlagInv'
  BY <1>4 DEF AddParameters, Goto
<1>5. ASSUME NEW r \in Rpc, QueueGet(r) PROVE FlagInv'
  BY <1>5 DEF QueueGet, Start, Goto
<1>6. ASSUME NEW r \in Rpc, OtherSession(r) PROVE FlagInv'
  BY <1>6 DEF OtherSession, Start, Goto
<1>7. ASSUME NEW t \in Receiver, Signal(t) PROVE FlagInv'
  BY <1>7 DEF Signal, Goto
<1>8. ASSUME NEW t \in Receiver, Transfer(t) PROVE FlagInv'
  BY <1>8 DEF Transfer, Start, Goto
<1>9. ASSUME NEW t \in Receiver, AfterTransfer(t) PROVE FlagInv'
  BY <1>9 DEF AfterTransfer, Start, Goto
<1>10. ASSUME NEW t \in Thread, SendCommand(t) PROVE FlagInv'
  <2>1. PICK to \in Places, res \in BOOLEAN, st \in 0..2 :
          Outcome(t, to, res, st)
    BY <1>10, SendCommandEffect
  <2> USE DEF Outcome, Places
  <2> QED
    BY <2>1 DEF Sends
<1>11. ASSUME NEW t \in Thread, ApplyChanges(t) PROVE FlagInv'
  BY <1>11 DEF ApplyChanges, ChangesApplied, ApplyFails, Goto
<1>12. ASSUME NEW t \in Thread, UnlockOrLock(t) PROVE FlagInv'
  BY <1>12 DEF UnlockOrLock, Unlock, Lock, Goto
<1>13. ASSUME NEW t \in Thread, EndSet(t) PROVE FlagInv'
  BY <1>13 DEF EndSet, End, Goto
<1>14. ASSUME NEW t \in Thread, EndOther(t) PROVE FlagInv'
  BY <1>14 DEF EndOther, End, Goto
<1>15. ASSUME NEW t \in Thread, Save(t) PROVE FlagInv'
  BY <1>15 DEF Save, Goto
<1>16. CASE Restart
  BY <1>16 DEF Restart
<1>17. CASE UNCHANGED vars
  BY <1>17 DEF vars
<1> QED
  BY <1>1, <1>2, <1>3, <1>4, <1>5, <1>6, <1>7, <1>8, <1>9, <1>10, <1>11,
     <1>12, <1>13, <1>14, <1>15, <1>16, <1>17 DEF Next, SessionStep

(* A value leaves the queue when it is settled.                            *)
LEMMA QueueStep ==
  TypeOK /\ CommandInv /\ CallingInv /\ ValueInv /\ TransferInv /\ QueueInv
     /\ OlderInv /\ SentInv /\ [Next]_vars => QueueInv'
<1> SUFFICES ASSUME TypeOK, CommandInv, CallingInv, ValueInv, TransferInv,
                    QueueInv, OlderInv, SentInv, [Next]_vars
             PROVE  QueueInv'
  OBVIOUS
<1> USE DeviceConfigAssumption DEF TypeOK, SessionTypeOK, ValueInv,
   TransferInv, QueueInv, OlderInv, SentInv, Settled, Saving, InSession,
   Setting, sessionVars, queueVars, deviceVars, boundVars
<1>1. ASSUME NEW r \in Rpc, SetNow(r) PROVE QueueInv'
  BY <1>1 DEF SetNow, Start, Goto
<1>2. ASSUME NEW r \in Rpc, Queue(r) PROVE QueueInv'
  BY <1>2 DEF Queue, Goto
<1>3. ASSUME NEW r \in Rpc, SetFlag(r) PROVE QueueInv'
  BY <1>3 DEF SetFlag, Goto
<1>4. ASSUME NEW r \in Rpc, AddParameters(r) PROVE QueueInv'
  <2>1. value < MaxValue
    BY <1>4, ReservedValue DEF AddParameters, Calling, Goto
  <2>2. /\ update'[r] \in Update
        /\ \A p \in Parameter : update'[r][p] \in {0, value + 1}
        /\ \A t \in Thread : t # r => update'[t] = update[t]
    BY <1>4, <2>1, ValuesEffect DEF AddParameters
  <2>3. \A p \in Parameter :
          /\ queued'[p] = IF update'[r][p] # 0 THEN value + 1 ELSE queued[p]
          /\ latest'[p] = IF update'[r][p] # 0 THEN value + 1 ELSE latest[p]
    BY <1>4, <2>2, UpdateFacts DEF AddParameters
  <2>4. \A p \in Parameter : Saving(p)' <=> Saving(p) \/ update'[r][p] # 0
    BY <1>4, <2>2 DEF AddParameters, Goto
  <2>5. UNCHANGED <<sleeps, saved, staged, active>>
    BY <1>4 DEF AddParameters
  <2> HIDE DEF Saving
  <2> QED
    BY <2>3, <2>4, <2>5
<1>5. ASSUME NEW r \in Rpc, QueueGet(r) PROVE QueueInv'
  BY <1>5 DEF QueueGet, Start, Goto
<1>6. ASSUME NEW r \in Rpc, OtherSession(r) PROVE QueueInv'
  BY <1>6 DEF OtherSession, Start, Goto
<1>7. ASSUME NEW t \in Receiver, Signal(t) PROVE QueueInv'
  BY <1>7 DEF Signal, Goto
<1>8. ASSUME NEW t \in Receiver, Transfer(t) PROVE QueueInv'
  BY <1>8 DEF Transfer, Start, Goto
<1>9. ASSUME NEW t \in Receiver, AfterTransfer(t) PROVE QueueInv'
  BY <1>9 DEF AfterTransfer, Start, Goto
<1>10. ASSUME NEW t \in Thread, SendCommand(t) PROVE QueueInv'
  <2>1. PICK to \in Places, res \in BOOLEAN, st \in 0..2 :
          Outcome(t, to, res, st)
    BY <1>10, SendCommandEffect
  <2> USE DEF Outcome, Places
  <2>3. CASE ~Setting(t) \/ ~sleeps
    BY <2>1, <2>3 DEF Sends
  <2>4. CASE Setting(t) /\ sleeps
    <3>1. t \in Receiver /\ InSession(t) /\ queueMutex = t
      BY <2>1, <2>4 DEF Sends
    <3>2. PICK u \in Update : Carries(t, to, res, u)
      BY <2>1, <2>4
    <3>3. \A p \in Parameter : u[p] \in {0, update[t][p]} /\ update[t][p] \in
            {0, queued[p]}
      BY <2>4, <3>1, <3>2 DEF Carries
    <3>4. \A p \in Parameter :
            /\ \/ staged'[p] = staged[p]
               \/ staged'[p] = queued[p] /\ u[p] = queued[p] /\ queued[p] # 0
            /\ res => staged'[p] = IF u[p] # 0 THEN u[p] ELSE staged[p]
      <4>1. \A p \in Parameter :
              Merge(staged, u)[p] = IF u[p] # 0 THEN u[p] ELSE staged[p]
        BY UpdateFacts
      <4>2. CASE staged' = staged /\ ~res
        BY <4>2
      <4>3. CASE staged' = Merge(staged, u)
        BY <3>3, <4>1, <4>3
      <4> QED
        BY <3>2, <4>2, <4>3 DEF Carries
    <3>5. \A p \in Parameter : Saving(p)' <=> Saving(p)
      BY <2>1, <3>2 DEF Sends, Carries
    <3>6. \A p \in Parameter : Settled(p) => Settled(p)'
      BY <2>1, <2>4, <3>4
    <3> HIDE DEF Settled, Saving
    <3> QED
      BY <2>1, <2>4, <3>5, <3>6
  <2> QED
    BY <2>3, <2>4
<1>11. ASSUME NEW t \in Thread, ApplyChanges(t) PROVE QueueInv'
  BY <1>11 DEF ApplyChanges, ChangesApplied, ApplyFails, Goto
<1>12. ASSUME NEW t \in Thread, UnlockOrLock(t) PROVE QueueInv'
  <2>1. CASE Unlock(t)
    BY <1>12, <2>1 DEF UnlockOrLock, Unlock, Goto
  <2>2. CASE Lock(t)
    BY <1>12, <2>2 DEF UnlockOrLock, Lock, Goto
  <2> QED
    BY <1>12, <2>1, <2>2 DEF UnlockOrLock
<1>13. ASSUME NEW t \in Thread, EndSet(t) PROVE QueueInv'
  <2>1. CASE ~sleeps
    BY <1>13, <2>1 DEF EndSet
  <2>2. CASE sleeps
    <3>1. t \in Receiver /\ InSession(t) /\ pc[t] = "end"
      BY <1>13, <2>2 DEF EndSet, End, Goto
    <3>2. CASE result[t]
      <4>1. \A p \in Parameter : queued[p] # 0 => staged[p] = queued[p] /\
              active[p] = queued[p]
        BY <1>13, <2>2, <3>1, <3>2 DEF EndSet
      <4>2. \A p \in Parameter : queued'[p] = 0
        BY <1>13, <3>1, <3>2, UpdateFacts DEF EndSet
      <4>3. \A p \in Parameter : Settled(p)'
        BY <1>13, <2>2, <4>1 DEF EndSet
      <4>4. \A p \in Parameter : Saving(p)' <=> Saving(p)
        BY <1>13, <3>1 DEF EndSet, End, Goto
      <4> HIDE DEF Settled, Saving
      <4> QED
        BY <1>13, <2>2, <4>2, <4>3, <4>4 DEF EndSet
    <3>3. CASE ~result[t]
      <4>1. \A p \in Parameter : Saving(p)' <=> Saving(p)
        BY <1>13, <3>1 DEF EndSet, End, Goto
      <4>2. UNCHANGED <<sleeps, queued, saved, staged, active, latest>>
        BY <1>13, <3>3 DEF EndSet
      <4> HIDE DEF Saving
      <4> QED
        BY <2>2, <4>1, <4>2
    <3> QED
      BY <3>2, <3>3
  <2> QED
    BY <2>1, <2>2
<1>14. ASSUME NEW t \in Thread, EndOther(t) PROVE QueueInv'
  BY <1>14 DEF EndOther, End, Goto
<1>15. ASSUME NEW t \in Thread, Save(t) PROVE QueueInv'
  BY <1>15 DEF Save, Goto
<1>16. CASE Restart
  BY <1>16 DEF Restart
<1>17. CASE UNCHANGED vars
  BY <1>17 DEF vars
<1> QED
  BY <1>1, <1>2, <1>3, <1>4, <1>5, <1>6, <1>7, <1>8, <1>9, <1>10, <1>11,
     <1>12, <1>13, <1>14, <1>15, <1>16, <1>17 DEF Next, SessionStep

(* What a call adds is newer than anything the device was sent.            *)
LEMMA OlderStep ==
  TypeOK /\ CommandInv /\ CallingInv /\ ValueInv /\ TransferInv /\ QueueInv
     /\ OlderInv /\ SentInv /\ [Next]_vars => OlderInv'
<1> SUFFICES ASSUME TypeOK, CommandInv, CallingInv, ValueInv, TransferInv,
                    QueueInv, OlderInv, SentInv, [Next]_vars
             PROVE  OlderInv'
  OBVIOUS
<1> USE DeviceConfigAssumption DEF TypeOK, SessionTypeOK, ValueInv,
   TransferInv, QueueInv, OlderInv, SentInv, InSession, Setting,
   sessionVars, queueVars, deviceVars, boundVars
<1>1. ASSUME NEW r \in Rpc, SetNow(r) PROVE OlderInv'
  BY <1>1 DEF SetNow, Start, Goto
<1>2. ASSUME NEW r \in Rpc, Queue(r) PROVE OlderInv'
  BY <1>2 DEF Queue, Goto
<1>3. ASSUME NEW r \in Rpc, SetFlag(r) PROVE OlderInv'
  BY <1>3 DEF SetFlag, Goto
<1>4. ASSUME NEW r \in Rpc, AddParameters(r) PROVE OlderInv'
  <2>1. value < MaxValue
    BY <1>4, ReservedValue DEF AddParameters, Calling, Goto
  <2>2. /\ update'[r] \in Update
        /\ \A p \in Parameter : update'[r][p] \in {0, value + 1}
        /\ \A t \in Thread : t # r => update'[t] = update[t]
    BY <1>4, <2>1, ValuesEffect DEF AddParameters
  <2>3. \A p \in Parameter :
          /\ queued'[p] = IF update'[r][p] # 0 THEN value + 1 ELSE queued[p]
          /\ latest'[p] = IF update'[r][p] # 0 THEN value + 1 ELSE latest[p]
    BY <1>4, <2>2, UpdateFacts DEF AddParameters
  <2>4. UNCHANGED <<sleeps, saved, staged, active>>
    BY <1>4 DEF AddParameters
  <2> QED
    BY <2>3, <2>4
<1>5. ASSUME NEW r \in Rpc, QueueGet(r) PROVE OlderInv'
  BY <1>5 DEF QueueGet, Start, Goto
<1>6. ASSUME NEW r \in Rpc, OtherSession(r) PROVE OlderInv'
  BY <1>6 DEF OtherSession, Start, Goto
<1>7. ASSUME NEW t \in Receiver, Signal(t) PROVE OlderInv'
  BY <1>7 DEF Signal, Goto
<1>8. ASSUME NEW t \in Receiver, Transfer(t) PROVE OlderInv'
  BY <1>8 DEF Transfer, Start, Goto
<1>9. ASSUME NEW t \in Receiver, AfterTransfer(t) PROVE OlderInv'
  BY <1>9 DEF AfterTransfer, Start, Goto
<1>10. ASSUME NEW t \in Thread, SendCommand(t) PROVE OlderInv'
  <2>1. PICK to \in Places, res \in BOOLEAN, st \in 0..2 :
          Outcome(t, to, res, st)
    BY <1>10, SendCommandEffect
  <2> USE DEF Outcome, Places
  <2>3. CASE ~Setting(t) \/ ~sleeps
    BY <2>1, <2>3 DEF Sends
  <2>4. CASE Setting(t) /\ sleeps
    <3>1. t \in Receiver /\ InSession(t) /\ queueMutex = t
      BY <2>1, <2>4 DEF Sends
    <3>2. PICK u \in Update : Carries(t, to, res, u)
      BY <2>1, <2>4
    <3>3. \A p \in Parameter : u[p] \in {0, update[t][p]} /\ update[t][p] \in
            {0, queued[p]}
      BY <2>4, <3>1, <3>2 DEF Carries
    <3>4. \A p \in Parameter :
            /\ \/ staged'[p] = staged[p]
               \/ staged'[p] = queued[p] /\ u[p] = queued[p] /\ queued[p] # 0
            /\ res => staged'[p] = IF u[p] # 0 THEN u[p] ELSE staged[p]
      <4>1. \A p \in Parameter :
              Merge(staged, u)[p] = IF u[p] # 0 THEN u[p] ELSE staged[p]
        BY UpdateFacts
      <4>2. CASE staged' = staged /\ ~res
        BY <4>2
      <4>3. CASE staged' = Merge(staged, u)
        BY <3>3, <4>1, <4>3
      <4> QED
        BY <3>2, <4>2, <4>3 DEF Carries
    <3> QED
      BY <2>1, <2>4, <3>3, <3>4
  <2> QED
    BY <2>3, <2>4
<1>11. ASSUME NEW t \in Thread, ApplyChanges(t) PROVE OlderInv'
  BY <1>11 DEF ApplyChanges, ChangesApplied, ApplyFails, Goto
<1>12. ASSUME NEW t \in Thread, UnlockOrLock(t) PROVE OlderInv'
  BY <1>12 DEF UnlockOrLock, Unlock, Lock, Goto
<1>13. ASSUME NEW t \in Thread, EndSet(t) PROVE OlderInv'
  <2>1. CASE ~sleeps
    BY <1>13, <2>1 DEF EndSet
  <2>2. CASE sleeps
    <3>1. t \in Receiver /\ InSession(t) /\ pc[t] = "end"
      BY <1>13, <2>2 DEF EndSet, End, Goto
    <3>2. CASE result[t]
      <4>1. \A p \in Parameter : queued[p] # 0 => staged[p] = queued[p] /\
              active[p] = queued[p]
        BY <1>13, <2>2, <3>1, <3>2 DEF EndSet
      <4>2. \A p \in Parameter : queued'[p] = 0
        BY <1>13, <3>1, <3>2, UpdateFacts DEF EndSet
      <4> QED
        BY <1>13, <2>2, <4>1, <4>2 DEF EndSet
    <3>3. CASE ~result[t]
      BY <1>13, <3>3 DEF EndSet
    <3> QED
      BY <3>2, <3>3
  <2> QED
    BY <2>1, <2>2
<1>14. ASSUME NEW t \in Thread, EndOther(t) PROVE OlderInv'
  BY <1>14 DEF EndOther, End, Goto
<1>15. ASSUME NEW t \in Thread, Save(t) PROVE OlderInv'
  BY <1>15 DEF Save, Goto
<1>16. CASE Restart
  BY <1>16 DEF Restart
<1>17. CASE UNCHANGED vars
  BY <1>17 DEF vars
<1> QED
  BY <1>1, <1>2, <1>3, <1>4, <1>5, <1>6, <1>7, <1>8, <1>9, <1>10, <1>11,
     <1>12, <1>13, <1>14, <1>15, <1>16, <1>17 DEF Next, SessionStep

(* The result of a transfer is true when everything was acknowledged, and   *)
(* then the device has it, whatever the sessions of others do.             *)
LEMMA SentStep ==
  TypeOK /\ CommandInv /\ TransferInv /\ SentInv /\ [Next]_vars => SentInv'
<1> SUFFICES ASSUME TypeOK, CommandInv, TransferInv, SentInv, [Next]_vars
             PROVE  SentInv'
  OBVIOUS
<1> USE DeviceConfigAssumption DEF TypeOK, SessionTypeOK, TransferInv,
   SentInv, InSession, Setting, sessionVars, queueVars, deviceVars,
   boundVars
<1>1. ASSUME NEW r \in Rpc, SetNow(r) PROVE SentInv'
  BY <1>1 DEF SetNow, Start, Goto
<1>2. ASSUME NEW r \in Rpc, Queue(r) PROVE SentInv'
  BY <1>2 DEF Queue, Goto
<1>3. ASSUME NEW r \in Rpc, SetFlag(r) PROVE SentInv'
  BY <1>3 DEF SetFlag, Goto
<1>4. ASSUME NEW r \in Rpc, AddParameters(r) PROVE SentInv'
  BY <1>4 DEF AddParameters, Goto
<1>5. ASSUME NEW r \in Rpc, QueueGet(r) PROVE SentInv'
  BY <1>5 DEF QueueGet, Start, Goto
<1>6. ASSUME NEW r \in Rpc, OtherSession(r) PROVE SentInv'
  BY <1>6 DEF OtherSession, Start, Goto
<1>7. ASSUME NEW t \in Receiver, Signal(t) PROVE SentInv'
  BY <1>7 DEF Signal, Goto
<1>8. ASSUME NEW t \in Receiver, Transfer(t) PROVE SentInv'
  BY <1>8 DEF Transfer, Start, Goto
<1>9. ASSUME NEW t \in Receiver, AfterTransfer(t) PROVE SentInv'
  BY <1>9, NoOperation DEF AfterTransfer, Start, Goto
<1>10. ASSUME NEW t \in Thread, SendCommand(t) PROVE SentInv'
  <2>1. PICK to \in Places, res \in BOOLEAN, st \in 0..2 :
          Outcome(t, to, res, st)
    BY <1>10, SendCommandEffect
  <2> USE DEF Outcome, Places
  <2>3. CASE ~Setting(t) \/ ~sleeps
    BY <2>1, <2>3 DEF Sends
  <2>4. CASE Setting(t) /\ sleeps
    <3>1. t \in Receiver /\ InSession(t) /\ queueMutex = t
      BY <2>1, <2>4 DEF Sends
    <3>2. PICK u \in Update : Carries(t, to, res, u)
      BY <2>1, <2>4
    <3>3. \A p \in Parameter : u[p] \in {0, update[t][p]} /\ update[t][p] \in
            {0, queued[p]}
      BY <2>4, <3>1, <3>2 DEF Carries
    <3>4. \A p \in Parameter :
            /\ \/ staged'[p] = staged[p]
               \/ staged'[p] = queued[p] /\ u[p] = queued[p] /\ queued[p] # 0
            /\ res => staged'[p] = IF u[p] # 0 THEN u[p] ELSE staged[p]
      <4>1. \A p \in Parameter :
              Merge(staged, u)[p] = IF u[p] # 0 THEN u[p] ELSE staged[p]
        BY UpdateFacts
      <4>2. CASE staged' = staged /\ ~res
        BY <4>2
      <4>3. CASE staged' = Merge(staged, u)
        BY <3>3, <4>1, <4>3
      <4> QED
        BY <3>2, <4>2, <4>3 DEF Carries
    <3>5. \A p \in Parameter : update'[t][p] = IF u[p] # 0 THEN 0 ELSE
            update[t][p]
      BY <3>2 DEF Carries
    <3>6. \A x \in Receiver : InSession(x)' /\ Setting(x)' => x = t
      BY <2>1, <3>1 DEF Sends
    <3>7. ASSUME NEW p \in Parameter
          PROVE  /\ update'[t][p] \in {0, queued[p]}
                 /\ result'[t] /\ queued[p] # 0 =>
                      /\ pc'[t] = "command" =>
                           update'[t][p] = queued[p] \/ staged'[p] = queued[p]
                      /\ pc'[t] = "apply" => staged'[p] = queued[p]
                      /\ pc'[t] \notin {"unlock", "lock", "end"}
      <4>1. update'[t][p] \in {0, queued[p]}
        BY <3>3, <3>5
      <4>2. ASSUME result'[t], queued[p] # 0
            PROVE  /\ res /\ result[t]
                   /\ update[t][p] = queued[p] \/ staged[p] = queued[p]
        BY <2>1, <2>4, <3>1, <4>2 DEF Sends
      <4>3. pc'[t] = to /\ (res => to \in {"command", "apply"})
        BY <2>1, <2>4 DEF Sends
      <4>4. to = "apply" => u = update[t]
        BY <3>2 DEF Carries
      <4> QED
        BY <3>3, <3>4, <3>5, <4>1, <4>2, <4>3, <4>4
    <3> QED
      BY <2>1, <3>6, <3>7
  <2> QED
    BY <2>3, <2>4
<1>11. ASSUME NEW t \in Thread, ApplyChanges(t) PROVE SentInv'
  BY <1>11 DEF ApplyChanges, ChangesApplied, ApplyFails, Goto
<1>12. ASSUME NEW t \in Thread, UnlockOrLock(t) PROVE SentInv'
  <2>1. CASE Unlock(t)
    BY <1>12, <2>1 DEF UnlockOrLock, Unlock, Goto
  <2>2. CASE Lock(t)
    BY <1>12, <2>2 DEF UnlockOrLock, Lock, Goto
  <2> QED
    BY <1>12, <2>1, <2>2 DEF UnlockOrLock
<1>13. ASSUME NEW t \in Thread, EndSet(t) PROVE SentInv'
  BY <1>13 DEF EndSet, End, Goto
<1>14. ASSUME NEW t \in Thread, EndOther(t) PROVE SentInv'
  BY <1>14 DEF EndOther, End, Goto
<1>15. ASSUME NEW t \in Thread, Save(t) PROVE SentInv'
  BY <1>15 DEF Save, Goto
<1>16. CASE Restart
  BY <1>16 DEF Restart
<1>17. CASE UNCHANGED vars
  BY <1>17 DEF vars
<1> QED
  BY <1>1, <1>2, <1>3, <1>4, <1>5, <1>6, <1>7, <1>8, <1>9, <1>10, <1>11,
     <1>12, <1>13, <1>14, <1>15, <1>16, <1>17 DEF Next, SessionStep

-----------------------------------------------------------------------------
(* The inductive invariant holds at the start, and every step keeps it.    *)
LEMMA InitIInv == Init => IInv
<1> SUFFICES ASSUME Init PROVE IInv
  OBVIOUS
<1> USE DeviceConfigAssumption DEF Init, SessionInit
<1>1. [t \in Thread |-> GetLinkTable] \in [Thread -> Operations]
  BY NoOperation
<1>2. TypeOK
  <2>1. op \in [Thread -> Operations]
    BY <1>1
  <2>2. step \in [Thread -> 0..2] /\ result \in [Thread -> BOOLEAN]
    OBVIOUS
  <2>3. {open, leftOpen} \subseteq BOOLEAN
    OBVIOUS
  <2>4. SessionTypeOK
    BY <2>1, <2>2, <2>3, Zenon DEF SessionTypeOK
  <2>5. update \in [Thread -> Update]
    BY UpdateFacts
  <2>6. {queued, saved, staged, active, latest} \subseteq Update
    BY UpdateFacts
  <2>7. pc \in [Thread -> {"idle", "flag", "add", "save", "signal", "transfer",
                          "after", "unlock", "command", "apply", "lock",
                                  "end"}]
    OBVIOUS
  <2>8. {sleeps, setFlag, getFlag, pending, overlapped} \subseteq BOOLEAN
    OBVIOUS
  <2>9. value \in 0..MaxValue /\ sessions \in 0..MaxSessions
    OBVIOUS
  <2>10. queueMutex \in Receiver \cup {None}
    OBVIOUS
  <2> HIDE DEF Init, SessionInit
  <2> QED
    BY <2>4, <2>5, <2>6, <2>7, <2>8, <2>9, <2>10
       DEF TypeOK
<1>3. Calling = {}
  BY DEF Calling
<1>4. CallingInv
  BY <1>3, FS_EmptySet DEF CallingInv
<1>5. CommandInv /\ OpenInv /\ SavedInv
  BY DEF CommandInv, OpenInv, SavedInv
<1>6. ValueInv
  BY UpdateFacts DEF ValueInv
<1>7. TransferInv /\ SentInv
  BY NoOperation DEF TransferInv, SentInv, InSession, Setting
<1>8. FlagInv
  BY <1>3 DEF FlagInv
<1>9. QueueInv /\ OlderInv
  BY UpdateFacts DEF QueueInv, OlderInv, Settled, Saving
<1> QED
  BY <1>2, <1>4, <1>5, <1>6, <1>7, <1>8, <1>9 DEF IInv

(* A step keeps the conjunction of what it keeps.                          *)
LEMMA NextIInv == IInv /\ [Next]_vars => IInv'
  BY TypeStep, CommandStep, OpenStep, CallingStep, ValueStep, TransferStep,
     SavedStep, FlagStep, QueueStep, OlderStep, SentStep
     DEF IInv

(* The invariant holds in every state the program can be in.               *)
THEOREM Invariance == Spec => []IInv
  BY InitIInv, NextIInv, PTL DEF Spec

(* Every variable keeps its type: the parts of a session are those of an   *)
(* operation of EnOceanPeer, and no more values are used than there are.   *)
THEOREM TypeInvariant == Spec => []TypeOK
  BY Invariance, PTL DEF IInv

(* No parameter of a sleeping device is lost by putParamset, the transfer  *)
(* after a signal telegram and a restart: the value last asked for, or a   *)
(* newer one, is queued or in force.                                       *)
THEOREM NoneLost == Spec => []NoParameterLost
<1>1. IInv => NoParameterLost
  BY DEF IInv, QueueInv, NoParameterLost, Settled
<1> QED
  BY <1>1, Invariance, PTL

(* What queueSetDeviceConfiguration has queued has its flag, so that the   *)
(* next signal transfers it, and its message, unless calls overlapped.     *)
THEOREM NextSignalSends == Spec => []QueuedIsSent
<1>1. IInv => QueuedIsSent
  BY DeviceConfigAssumption DEF IInv, FlagInv, QueuedIsSent
<1> QED
  BY <1>1, Invariance, PTL

(* No session of remote management that ran to its end leaves the device   *)
(* open, whatever the sessions of other threads do meanwhile.              *)
THEOREM LeftOpen == Spec => []OpenOnlyAfterFailure
<1>1. IInv => OpenOnlyAfterFailure
  BY DEF IInv, OpenInv, OpenOnlyAfterFailure, InSession
<1> QED
  BY <1>1, Invariance, PTL

(* Only the end of a session brings something into force.                  *)
LEMMA ActiveStep ==
  ASSUME [Next]_vars
  PROVE  active' = active \/ \E t \in Thread : ApplyChanges(t)
<1> USE DEF deviceVars
<1>1. ASSUME NEW r \in Rpc,
             \/ SetNow(r) \/ Queue(r) \/ SetFlag(r) \/ AddParameters(r)
             \/ QueueGet(r) \/ OtherSession(r)
      PROVE  active' = active
  BY <1>1 DEF SetNow, Queue, SetFlag, AddParameters, QueueGet, OtherSession
<1>2. ASSUME NEW t \in Receiver, Signal(t) \/ Transfer(t) \/ AfterTransfer(t)
      PROVE  active' = active
  BY <1>2 DEF Signal, Transfer, AfterTransfer
<1>3. ASSUME NEW t \in Thread,
             \/ SendCommand(t) \/ UnlockOrLock(t) \/ EndSet(t)
             \/ EndOther(t) \/ Save(t)
      PROVE  active' = active
  BY <1>3 DEF SendCommand, UnlockOrLock, EndSet, EndOther, Save
<1>4. CASE Restart \/ UNCHANGED vars
  BY <1>4 DEF Restart, vars
<1> QED
  BY <1>1, <1>2, <1>3, <1>4 DEF Next, SessionStep

(* What was left in the device by a transfer that failed is not brought    *)
(* into force over something newer, unless something is queued again.      *)
THEOREM NoneStale == Spec => NothingStaleApplied
<1>1. ASSUME IInv, [Next]_vars, sleeps, NEW p \in Parameter,
             active'[p] < active[p]
      PROVE  queued[p] # 0 /\ queued[p] >= latest[p]
  <2>1. queued \in Update /\ staged \in Update /\ active \in Update
    <3>1. TypeOK
      BY <1>1 DEF IInv
    <3> QED
      BY <3>1 DEF TypeOK, SessionTypeOK
  <2>2. active[p] \in Nat
    BY <2>1, DeviceConfigAssumption DEF Update
  <2>3. active'[p] # active[p]
    BY <1>1, <2>2
  <2>4. PICK t \in Thread : ApplyChanges(t)
    BY <1>1, <2>3, ActiveStep
  <2>5. active' = staged
    BY <2>3, <2>4 DEF ApplyChanges
  <2>6. ~(staged[p] >= active[p])
    BY <1>1, <2>1, <2>5, DeviceConfigAssumption DEF Update
  <2> QED
    BY <1>1, <2>6 DEF IInv, OlderInv, QueueInv
<1>2. IInv /\ [Next]_vars =>
        [sleeps => \A p \in Parameter :
           active'[p] < active[p] => queued[p] # 0 /\ queued[p] >= latest[p]]_vars
  BY <1>1
<1> QED
  BY <1>2, Invariance, PTL DEF Spec, NothingStaleApplied
=============================================================================
