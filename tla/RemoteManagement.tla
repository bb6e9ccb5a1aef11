---------------------------- MODULE RemoteManagement ----------------------------
(***************************************************************************)
(* Remote management sessions of an EnOceanPeer with its device: unlock,   *)
(* commands, apply, lock.  Several threads may have a session with one     *)
(* device; nothing makes them take turns.                                  *)
(*                                                                         *)
(* An operation is a list of commands, each with what happens when it is   *)
(* not acknowledged ("ignore": nothing, "note": the changes are not        *)
(* applied, "lock": the device is locked and the operation ends, "return": *)
(* it ends at once), and whether changes are applied and the device locked *)
(* at the end.  Operations that repeat a command, once per chunk or         *)
(* selector, are taken with one or two of each.                            *)
(*                                                                         *)
(* The device has a security code and supports every operation.  It obeys  *)
(* while it is open, and telegrams in both directions may be lost in spite *)
(* of the retries of sendAndReceivePacket.                                 *)
(***************************************************************************)
EXTENDS Sequences, Naturals

CONSTANT Thread   \* threads with sessions

VARIABLES
  pc,       \* [Thread -> where its session is, "idle" without one]
  op,       \* [Thread -> its operation]
  step,     \* [Thread -> commands sent]
  result,   \* [Thread -> whether every noted command was acknowledged]
  open,     \* whether the device is unlocked
  leftOpen  \* history: a session ended without locking, or its lock was lost

sessionVars == <<pc, op, step, result, open, leftOpen>>

Operation(commands, apply, lock) ==
  [commands |-> commands, apply |-> apply, lock |-> lock]

SetDeviceConfiguration(chunks) ==
  Operation([c \in 1..chunks |-> "note"], TRUE, TRUE)
GetDeviceConfiguration == Operation(<<"note">>, FALSE, TRUE)
SendInboundLinkTable == Operation(<<"return", "note">>, TRUE, TRUE)
GetPathInfoThroughPing == Operation(<<"return">>, FALSE, FALSE)
GetLinkTable == Operation(<<"return">>, FALSE, TRUE)
SetRepeaterFilter == Operation(<<"return">>, FALSE, TRUE)
SetRepeaterFunctions == Operation(<<"return">>, FALSE, TRUE)
SetSecurityProfile == Operation(<<"return">>, FALSE, TRUE)
SetCode(enforce) ==
  Operation(<<IF enforce THEN "ignore" ELSE "return">>, FALSE, TRUE)
SetLinkTable == Operation(<<"return", "return">>, TRUE, TRUE)
UpdateSecurityProfile == Operation(<<"lock", "lock">>, FALSE, TRUE)
SetRepeaterLevel == Operation(<<"ignore">>, TRUE, TRUE)

OtherOperations ==
  {SendInboundLinkTable, GetPathInfoThroughPing, GetLinkTable,
   SetRepeaterFilter, SetRepeaterFunctions, SetSecurityProfile, SetCode(TRUE),
   SetCode(FALSE), SetLinkTable, UpdateSecurityProfile, SetRepeaterLevel}

Operations ==
  OtherOperations \cup {SetDeviceConfiguration(c) : c \in 1..2}
    \cup {GetDeviceConfiguration}

InSession(t) == pc[t] \in {"unlock", "command", "apply", "lock", "end"}

SessionTypeOK ==
  /\ op \in [Thread -> Operations]
  /\ step \in [Thread -> 0..2]
  /\ result \in [Thread -> BOOLEAN]
  /\ {open, leftOpen} \subseteq BOOLEAN

SessionInit ==
  /\ pc = [t \in Thread |-> "idle"]
  /\ op = [t \in Thread |-> GetLinkTable]
  /\ step = [t \in Thread |-> 0]
  /\ result = [t \in Thread |-> FALSE]
  /\ open = FALSE
  /\ leftOpen = FALSE

Goto(t, from, to) ==
  /\ pc[t] = from
  /\ pc' = [pc EXCEPT ![t] = to]

-----------------------------------------------------------------------------
Start(t, from, o) ==
  /\ Goto(t, from, "unlock")
  /\ op' = [op EXCEPT ![t] = o]
  /\ step' = [step EXCEPT ![t] = 0]
  /\ result' = [result EXCEPT ![t] = TRUE]
  /\ UNCHANGED <<open, leftOpen>>

(* remoteManagementUnlock: what it returns is never looked at.             *)
Unlock(t) ==
  /\ Goto(t, "unlock", "command")
  /\ open' \in {open, TRUE}
  /\ UNCHANGED <<op, step, result, leftOpen>>

Commands(t) == op[t].commands

(* Faulty variant: nothing is locked when changes are not applied.         *)
ConcludeUnlocked(t, res) ==
  IF op[t].apply /\ res THEN "apply"
  ELSE IF op[t].lock /\ res THEN "lock" ELSE "end"

(* Where a session is when its last command was sent.                      *)
Conclusion(t, res) ==
  IF op[t].apply /\ res THEN "apply" ELSE IF op[t].lock THEN "lock" ELSE "end"

AfterCommand(t, res) ==
  IF step[t] + 1 < Len(Commands(t)) THEN "command" ELSE Conclusion(t, res)

(* A command is executed and acknowledged.                                 *)
CommandAcknowledged(t) ==
  /\ open
  /\ Goto(t, "command", AfterCommand(t, result[t]))
  /\ step' = [step EXCEPT ![t] = @ + 1]
  /\ leftOpen' = (leftOpen \/ ~op[t].lock)
  /\ UNCHANGED <<op, result, open>>

(* A command, or its acknowledgement, is lost; the operation goes on.      *)
CommandLost(t) ==
  LET onError == Commands(t)[step[t] + 1]
      res == result[t] /\ onError # "note"
  IN /\ pc[t] = "command"
     /\ onError \in {"ignore", "note", "lock"}
     /\ Goto(t, "command", IF onError = "lock" THEN "lock" ELSE AfterCommand(t, res))
     /\ step' = [step EXCEPT ![t] = @ + 1]
     /\ result' = [result EXCEPT ![t] = res /\ onError # "lock"]
     /\ UNCHANGED <<op, open, leftOpen>>

(* The operation returns without locking.                                  *)
CommandFails(t) ==
  /\ pc[t] = "command"
  /\ Commands(t)[step[t] + 1] = "return"
  /\ pc' = [pc EXCEPT ![t] = "end"]
  /\ result' = [result EXCEPT ![t] = FALSE]
  /\ leftOpen' = TRUE
  /\ UNCHANGED <<op, step, open>>

(* remoteManagementApplyChanges.                                           *)
ChangesApplied(t) ==
  /\ open
  /\ Goto(t, "apply", "lock")
  /\ UNCHANGED <<op, step, result, open, leftOpen>>

ApplyFails(t) ==
  /\ Goto(t, "apply", "end")
  /\ result' = [result EXCEPT ![t] = FALSE]
  /\ leftOpen' = TRUE
  /\ UNCHANGED <<op, step, open>>

(* remoteManagementLock: two telegrams, neither acknowledged.              *)
Lock(t) ==
  /\ Goto(t, "lock", "end")
  /\ \E arrives \in BOOLEAN :
       /\ open' = (open /\ ~arrives)
       /\ leftOpen' = IF arrives THEN FALSE ELSE TRUE
  /\ UNCHANGED <<op, step, result>>

End(t, to) ==
  /\ Goto(t, "end", to)
  /\ op' = [op EXCEPT ![t] = GetLinkTable]
  /\ step' = [step EXCEPT ![t] = 0]
  /\ result' = [result EXCEPT ![t] = FALSE]
  /\ UNCHANGED <<open, leftOpen>>

-----------------------------------------------------------------------------
(* Correctness.                                                            *)

(* A device that is open while no session is under way was left open by a  *)
(* session that failed, asked for path information, or had its lock lost:  *)
(* no session that ran to its end leaves it open, nor does one that ran    *)
(* into another's.                                                         *)
OpenOnlyAfterFailure ==
  (\A t \in Thread : ~InSession(t)) /\ open => leftOpen
=============================================================================
