--------------------------------- MODULE Usb300 --------------------------------
(***************************************************************************)
(* The life of the interface to a USB 300 stick: startListening opens the  *)
(* device and initialises the stick from the caller's thread, the thread   *)
(* that listens closes and opens it again after an error, and starts an    *)
(* initialisation of its own.  Initialising means three or four exchanges, *)
(* each of which is answered or fails ten times (here: once), while the    *)
(* stick may be exchanged and the device be closed.  Meanwhile, or after   *)
(* it, a command line may set the base address, and a firmware update ask  *)
(* for the duty cycle: one such command at a time.                         *)
(*                                                                         *)
(* The stick may be pulled out, another one be put in, and it may not      *)
(* answer, until it is settled.  An exchange needs the listening thread to *)
(* read the answer, and fails at once when the interface is stopped.       *)
(*                                                                         *)
(* Bounds: MaxSticks, and MaxChanges of a stick's base address (10).       *)
(***************************************************************************)
EXTENDS Naturals

CONSTANTS MaxSticks, MaxChanges

ASSUME Usb300Assumption == {MaxSticks, MaxChanges} \subseteq Nat \ {0}

VARIABLES
  plugged,     \* sticks that were put in so far, the last of which may be in
  inside,      \* whether it is
  settled,     \* it stays, and answers
  changes,     \* what each stick has left of changes of its base address
  base,        \* the base address of each stick
  force,       \* the setting "forcebaseid"
  handle,      \* the stick _serial is open for, or 0
  usbStopped,  \* _stopped
  quit,        \* _stopCallbackThread
  complete,    \* _initComplete
  usbAddress,  \* _baseAddress
  listener,    \* the listening thread
  inits        \* what each Asker asks the stick for

stickVars == <<plugged, inside, settled, changes, base, force>>
stateVars == <<handle, usbStopped, quit, complete, usbAddress>>
usbVars == <<stickVars, stateVars, listener, inits>>

(* startListening and the thread of init, and whoever has a command.       *)
Initialiser == {"caller", "thread"}
Asker == Initialiser \cup {"command"}
Running == {"address", "info", "force", "check", "duty"}

(* Base addresses: a stick's own is its number.                            *)
Forced == 0
Commanded == MaxSticks + 1
Base == 0..(MaxSticks + 1)

UsbTypeOK ==
  /\ {plugged, handle} \subseteq 0..MaxSticks
  /\ usbAddress \in Base
  /\ changes \in [1..MaxSticks -> 0..MaxChanges]
  /\ base \in [1..MaxSticks -> Base]
  /\ {inside, settled, force, usbStopped, quit, complete} \subseteq BOOLEAN
  /\ listener \in {"none", "read", "sleep"}
  /\ inits \in [Asker -> Running \cup {"idle", "start", "refused"}]

UsbInit ==
  /\ plugged = 0
  /\ inside = FALSE
  /\ settled = FALSE
  /\ changes \in [1..MaxSticks -> {MaxChanges}]
  /\ base = [s \in 1..MaxSticks |-> s]
  /\ force \in BOOLEAN
  /\ handle = 0
  /\ usbStopped = TRUE
  /\ quit = FALSE
  /\ complete = FALSE
  /\ usbAddress = 0
  /\ listener = "none"
  /\ inits = [t \in Asker |-> IF t = "caller" THEN "start" ELSE "idle"]

(* The device is open for the stick that is in.                            *)
Attached == inside /\ handle = plugged
-----------------------------------------------------------------------------
Plug ==
  /\ ~inside
  /\ plugged < MaxSticks
  /\ inside' = TRUE
  /\ plugged' = plugged + 1
  /\ UNCHANGED <<settled, changes, base, force, stateVars, listener, inits>>

Unplug ==
  /\ inside
  /\ ~settled
  /\ inside' = FALSE
  /\ UNCHANGED <<plugged, settled, changes, base, force, stateVars, listener,
                 inits>>

Settle ==
  /\ inside
  /\ ~settled
  /\ settled' = TRUE
  /\ UNCHANGED <<plugged, inside, changes, base, force, stateVars, listener,
                 inits>>
-----------------------------------------------------------------------------
(* Without a device nothing listens, and nothing tries again.              *)
StartListening ==
  /\ inits["caller"] = "start"
  /\ \/ /\ inside
        /\ handle' = plugged
        /\ usbStopped' = FALSE
        /\ listener' = "read"
        /\ inits' = [inits EXCEPT !["caller"] = "address"]
     \/ /\ ~inside
        /\ inits' = [inits EXCEPT !["caller"] = "idle"]
        /\ UNCHANGED <<handle, usbStopped, listener>>
  /\ UNCHANGED <<stickVars, quit, complete, usbAddress>>

(* stopListening joins the listening thread, but not that of init.         *)
AskToStop ==
  /\ inits["caller"] = "idle"
  /\ ~quit
  /\ quit' = TRUE
  /\ UNCHANGED <<stickVars, handle, usbStopped, complete, usbAddress, listener,
                 inits>>

StopListening ==
  /\ quit
  /\ listener = "none"
  /\ handle # 0 \/ complete \/ ~usbStopped
  /\ handle' = 0
  /\ usbStopped' = TRUE
  /\ complete' = FALSE
  /\ UNCHANGED <<stickVars, quit, usbAddress, listener, inits>>
-----------------------------------------------------------------------------
(* listen.                                                                 *)

ReadFails ==
  /\ listener = "read"
  /\ ~quit
  /\ ~usbStopped
  /\ ~(settled /\ Attached)
  /\ usbStopped' = TRUE
  /\ UNCHANGED <<stickVars, handle, quit, complete, usbAddress, listener, inits>>

Close ==
  /\ listener = "read"
  /\ ~quit
  /\ usbStopped
  /\ handle' = 0
  /\ listener' = "sleep"
  /\ UNCHANGED <<stickVars, usbStopped, quit, complete, usbAddress, inits>>

(* Ten seconds later.  They outlast every exchange, which takes a second   *)
(* at most and fails at once as the interface is stopped: no thread is     *)
(* initialising any more, nor waits for the address it has set.            *)
Outlasted ==
  /\ \A t \in Initialiser : inits[t] \notin Running
  /\ inits["command"] # "check"

OpenAgain(initialised) ==
  /\ listener = "sleep"
  /\ Outlasted
  /\ listener' = "read"
  /\ complete' = initialised
  /\ handle' = IF inside THEN plugged ELSE 0
  /\ \/ /\ inside
        /\ usbStopped' = FALSE
        /\ inits' = [inits EXCEPT !["thread"] = "address"]
     \/ /\ ~inside
        /\ UNCHANGED <<usbStopped, inits>>
  /\ UNCHANGED <<stickVars, quit, usbAddress>>

(* Faulty variant: the interface still counts as initialised.              *)
ReconnectInitialised == OpenAgain(complete)

Reconnect == OpenAgain(FALSE)

StopReading ==
  /\ listener = "read"
  /\ quit
  /\ listener' = "none"
  /\ UNCHANGED <<stickVars, stateVars, inits>>
-----------------------------------------------------------------------------
(* init, setBaseAddress and getDutyCycleInfo.                              *)

CanAnswer == Attached /\ listener = "read" /\ ~usbStopped
CanFail == ~CanAnswer \/ ~settled
NoChangesLeft == handle # 0 /\ changes[handle] = 0

(* What a thread asks for next: with no more to ask for, init is complete. *)
Proceed(t, what) ==
  /\ inits' = [inits EXCEPT ![t] = what]
  /\ complete' = (complete \/ (t # "command" /\ what = "idle"))

(* After ten failures the interface is stopped, and initialised all the    *)
(* same if it was setBaseAddress that failed.  A command stops it a moment *)
(* later: only then is it seen that the stick has taken another address.   *)
GiveUp(t) ==
  /\ complete' = (complete \/ (t # "command" /\ inits[t] \in {"force", "check"}))
  /\ \/ /\ t # "command"
        /\ usbStopped' = TRUE
        /\ inits' = [inits EXCEPT ![t] = "idle"]
     \/ /\ t = "command"
        /\ inits' = [inits EXCEPT ![t] = "refused"]
        /\ UNCHANGED usbStopped

AskAddress(t) ==
  /\ inits[t] \in {"address", "check"}
  /\ CanAnswer
  /\ usbAddress' = base[handle]
  /\ Proceed(t, IF inits[t] = "address" THEN "info" ELSE "idle")
  /\ UNCHANGED <<stickVars, handle, usbStopped, quit, listener>>

AskInfo(t) ==
  /\ inits[t] = "info"
  /\ CanAnswer
  /\ Proceed(t, IF force THEN "force" ELSE "idle")
  /\ UNCHANGED <<stickVars, handle, usbStopped, quit, usbAddress, listener>>

AskDutyCycle ==
  /\ inits["command"] = "duty"
  /\ CanAnswer
  /\ inits' = [inits EXCEPT !["command"] = "idle"]
  /\ UNCHANGED <<stickVars, stateVars, listener>>

(* The base address is set each time, also if the stick has it already.    *)
SetAddress(t) ==
  /\ inits[t] = "force"
  /\ CanAnswer
  /\ changes[handle] > 0
  /\ changes' = [changes EXCEPT ![handle] = @ - 1]
  /\ base' = [base EXCEPT ![handle] = IF t = "command" THEN Commanded ELSE Forced]
  /\ \/ Proceed(t, "check") /\ UNCHANGED usbStopped
     \/ ~settled /\ GiveUp(t)    \* the answer is lost
  /\ UNCHANGED <<plugged, inside, settled, force, handle, quit, usbAddress,
                 listener>>

AskInVain(t) ==
  /\ inits[t] \in Running
  /\ CanFail \/ (inits[t] = "force" /\ NoChangesLeft)
  /\ GiveUp(t)
  /\ UNCHANGED <<stickVars, handle, quit, usbAddress, listener>>

(* "interface setaddress", or a question of a firmware update: at any      *)
(* time, also of an interface that is being initialised, or stopped.       *)
Command ==
  /\ inits["command"] = "idle"
  /\ \E what \in {"force", "duty"} : inits' = [inits EXCEPT !["command"] = what]
  /\ UNCHANGED <<stickVars, stateVars, listener>>

Refused ==
  /\ inits["command"] = "refused"
  /\ usbStopped' = TRUE
  /\ inits' = [inits EXCEPT !["command"] = "idle"]
  /\ UNCHANGED <<stickVars, handle, quit, complete, usbAddress, listener>>
-----------------------------------------------------------------------------
UsbListens ==
  ReadFails \/ Close \/ Reconnect \/ StopReading \/ StopListening
Asks(t) ==
  \/ AskAddress(t) \/ AskInfo(t) \/ SetAddress(t) \/ AskInVain(t)
  \/ t = "command" /\ AskDutyCycle

UsbNext ==
  \/ Plug \/ Unplug \/ Settle
  \/ StartListening \/ AskToStop
  \/ UsbListens
  \/ Command \/ Refused
  \/ \E t \in Asker : Asks(t)

(* An interface that is open and initialised, and so takes packets to send *)
(* (sendEnoceanPacket), has the base address of the stick it is open for,  *)
(* which the packets are sent from: also after sticks were exchanged, and  *)
(* when setting the address failed or was not acknowledged.  It does not   *)
(* while a command that has set another address has not read it back yet,  *)
(* or has failed and not stopped the interface yet: setBaseAddress does    *)
(* not keep packets of the old address from being sent in between.         *)
Unchecked == inits["command"] \in {"check", "refused"}

AddressIsOwn ==
  complete /\ ~usbStopped /\ ~Unchecked => handle # 0 /\ usbAddress = base[handle]

(* The stick stays and answers, and has changes left if it needs them, and *)
(* there are no more commands.                                             *)
UsbSteady ==
  /\ settled
  /\ listener # "none"
  /\ ~quit
  /\ inits["command"] = "idle"
  /\ force => changes[plugged] > 0

(* The stick is open and initialised, and its own telegrams are told from  *)
(* others by its address.                                                  *)
UsbUp ==
  /\ Attached
  /\ ~usbStopped
  /\ complete
  /\ usbAddress = base[plugged]
=============================================================================
