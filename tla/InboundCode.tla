------------------------------ MODULE InboundCode ------------------------------
(***************************************************************************)
(* The rolling code with which an EnOceanPeer reads what its device sends  *)
(* (_rollingCodeOutbound, "outbound" for the device): teach-in, implicit   *)
(* and explicit codes in packetReceived and decryptPacket, the ENCRYPTION  *)
(* parameter of putParamset, remanSetSecurityProfile, and the restart.     *)
(*                                                                         *)
(* Every interface has a thread that hands packets to the peer, nothing    *)
(* makes them take turns, and two interfaces, or a repeater, make one      *)
(* telegram arrive several times.  _lastPacket, which should filter the    *)
(* copies, is never assigned.                                              *)
(*                                                                         *)
(* Telegrams are numbered in the order the device sends them; telegram n   *)
(* carries the code n % Codes, in full if the device is explicit, in its   *)
(* CMAC only if it is implicit.  CMACs of different codes differ.          *)
(*                                                                         *)
(* Environment: a telegram is late by less than MaxDelay telegrams; writes *)
(* to the database are stored before a restart; a device that takes a      *)
(* profile goes on with the code and the new key in it.  Bounds: MaxSent   *)
(* telegrams, Codes codes (2^16 or 2^24), one profile at a time.           *)
(***************************************************************************)
EXTENDS Integers

CONSTANTS Thread,    \* threads that hand over packets, one per interface
          Codes,     \* number of codes, after which they start again
          Window,    \* implicit codes tried (128)
          MaxDelay, MaxSent,
          Named      \* codes that profiles are called with

ASSUME InboundCodeAssumption ==
  /\ {Codes, Window, MaxDelay, MaxSent} \subseteq Nat \ {0}
  /\ Window + MaxDelay <= Codes
  /\ Named \subseteq 0..(Codes - 1)

VARIABLES
  sent,      \* number of the device's last telegram
  since,     \* telegrams up to this one had another key
  explicit,  \* _explicitRollingCode, as the device is built
  key,       \* _aesKeyOutbound: "none", "full", or "broken": longer than a key
  part,      \* _aesKeyPart1: "none", "half", "full"
  force,     \* _forceEncryption
  parameter, \* ENCRYPTION as it is stored
  inKey,     \* whether _aesKeyInbound is set
  inUnset,   \* whether _rollingCodeInbound is 0xFFFFFFFF
  out,       \* _rollingCodeOutbound
  saved,     \* _rollingCodeOutbound in the database
  pc,        \* [Thread -> where it is]
  number,    \* [Thread -> the telegram it handles]
  match,     \* [Thread -> the code the CMAC was right for]
  profile,   \* the profile that waits for an answer: "none", "out", "in"
  told,      \* the telegram after which the device is told to go on
  last,      \* history: the telegrams up to this one count as received
  accepted,  \* history: telegrams accepted with this key
  forgotten, \* history: those with this key when ENCRYPTION went off
  raced,     \* history: a thread changed the code while another used it
  unheard    \* history: the code is one the device did not acknowledge

Unset == -1                      \* 0xFFFFFFFF: no code

deviceVars == <<sent, since, explicit>>
keyVars == <<key, part, inKey, inUnset>>
handlingVars == <<pc, number, match>>
profileVars == <<profile, told>>
historyVars == <<last, accepted, forgotten, raced, unheard>>
vars == <<deviceVars, keyVars, force, parameter, out, saved, handlingVars,
          profileVars, historyVars>>

TypeOK ==
  /\ {sent, since, told, last, forgotten} \subseteq Nat
  /\ {explicit, force, parameter, inKey, inUnset, raced, unheard} \subseteq BOOLEAN
  /\ key \in {"none", "full", "broken"}
  /\ part \in {"none", "half", "full"}
  /\ {out, saved} \subseteq Nat \cup {Unset}
  /\ pc \in [Thread -> {"idle", "verified", "taken"}]
  /\ number \in [Thread -> Nat]
  /\ match \in [Thread -> Nat]
  /\ profile \in {"none", "out", "in"}
  /\ accepted \subseteq Nat

(* An implicit device was paired without encryption; an explicit one was   *)
(* commissioned with keys and codes.                                       *)
Init ==
  /\ sent = 0 /\ since = 0
  /\ explicit \in BOOLEAN
  /\ key = IF explicit THEN "full" ELSE "none"
  /\ part = "none"
  /\ force = explicit
  /\ parameter = explicit
  /\ inKey = explicit
  /\ inUnset = ~explicit
  /\ out = IF explicit THEN 0 ELSE Unset
  /\ saved = out
  /\ pc = [t \in Thread |-> "idle"]
  /\ number = [t \in Thread |-> 0]
  /\ match = [t \in Thread |-> 0]
  /\ profile = "none" /\ told = 0
  /\ last = 0
  /\ accepted = {}
  /\ forgotten = 0
  /\ raced = FALSE /\ unheard = FALSE

(* A thread has checked a telegram, or the device is told the code.        *)
Used == profile = "out" \/ \E t \in Thread : pc[t] # "idle"

SetCode(c) == out' = c /\ saved' = c

-----------------------------------------------------------------------------
(* The device.                                                             *)

Transmit ==
  /\ sent < MaxSent
  /\ \A t \in Thread : pc[t] # "idle" => sent - number[t] < MaxDelay
  /\ sent' = sent + 1
  /\ UNCHANGED <<since, explicit, keyVars, force, parameter, out, saved,
                 handlingVars, profileVars, historyVars>>

(* Telegrams that may still arrive, late or once more.                     *)
Arriving == {n \in (since + 1)..sent : sent - n < MaxDelay}

-----------------------------------------------------------------------------
(* Teach-in, in two packets.                                               *)

TaughtIn == force /\ key # "none" /\ out # Unset

FirstTeachIn ==
  /\ ~explicit
  /\ ~TaughtIn
  /\ SetCode((sent + 1) % Codes)
  /\ part' = "half"
  /\ last' = sent
  /\ accepted' = {}
  /\ raced' = Used
  /\ unheard' = FALSE
  /\ UNCHANGED <<deviceVars, key, force, parameter, inKey, inUnset, handlingVars,
                 profileVars, forgotten>>

(* The second packet is added to what there is: arriving again, it makes   *)
(* the key too long.                                                       *)
SecondTeachIn ==
  /\ ~explicit
  /\ ~TaughtIn
  /\ part # "none"
  /\ part' = "full"
  /\ key' = IF part = "half" THEN "full" ELSE "broken"
  /\ force' = (force \/ inKey)
  /\ UNCHANGED <<deviceVars, parameter, inKey, inUnset, out, saved, handlingVars,
                 profileVars, historyVars>>

-----------------------------------------------------------------------------
(* Encrypted telegrams.                                                    *)

(* getCmac and encryptRollingCode put the low bytes of a code to use: the  *)
(* CMAC and the key stream are as good as these.                           *)
Cmac(c) == c % Codes
KeyStream(c) == c % Codes

(* Faulty variant: one code less is tried.                                 *)
ShortMatches(n) == {c \in out..(out + Window - 2) : Cmac(c) = Cmac(n)}

(* checkCmacImplicitRlc: the codes of the window with the CMAC of n.       *)
ImplicitMatches(n) == {c \in out..(out + Window - 1) : Cmac(c) = Cmac(n)}

Verifies(n) ==
  /\ key = "full"
  /\ out # Unset
  /\ IF explicit THEN ~inUnset /\ n % Codes > out ELSE ImplicitMatches(n) # {}

(* Both checks work on a copy of the code; a telegram that does not pass   *)
(* is dropped.                                                             *)
Verify(t, n) ==
  /\ pc[t] = "idle"
  /\ n \in Arriving
  /\ Verifies(n)
  /\ pc' = [pc EXCEPT ![t] = "verified"]
  /\ number' = [number EXCEPT ![t] = n]
  /\ \E c \in IF explicit THEN {n % Codes} ELSE ImplicitMatches(n) :
       match' = [match EXCEPT ![t] = c]
  /\ raced' = (raced \/ Used)
  /\ UNCHANGED <<deviceVars, keyVars, force, parameter, out, saved, profileVars,
                 last, accepted, forgotten, unheard>>

(* An explicit code is taken over before decryption, and not saved.        *)
TakeCode(t) ==
  /\ explicit
  /\ pc[t] = "verified"
  /\ pc' = [pc EXCEPT ![t] = "taken"]
  /\ out' = match[t]
  /\ last' = number[t]
  /\ UNCHANGED <<deviceVars, keyVars, force, parameter, saved, number, match,
                 profileVars, accepted, forgotten, raced, unheard>>

Received(t) ==
  /\ pc' = [pc EXCEPT ![t] = "idle"]
  /\ number' = [number EXCEPT ![t] = 0]
  /\ match' = [match EXCEPT ![t] = 0]
  /\ last' = number[t]
  /\ accepted' = accepted \cup {number[t]}
  /\ UNCHANGED <<deviceVars, keyVars, force, parameter, profileVars, forgotten,
                 raced, unheard>>

(* Faulty variant: the matching code is stored, not the next.              *)
AcceptMatch(t) ==
  /\ pc[t] = IF explicit THEN "taken" ELSE "verified"
  /\ IF explicit THEN UNCHANGED <<out, saved>> ELSE SetCode(match[t])
  /\ Received(t)

(* The telegram is decrypted with the code as it is now, and the code      *)
(* after the one that matched is stored.                                   *)
Accept(t) ==
  /\ pc[t] = IF explicit THEN "taken" ELSE "verified"
  /\ IF explicit THEN UNCHANGED <<out, saved>> ELSE SetCode(match[t] + 1)
  /\ Received(t)

-----------------------------------------------------------------------------
(* putParamset with a value of ENCRYPTION that is not in force.            *)
SetEncryption ==
  /\ force' = ~force
  /\ parameter' = ~force
  /\ IF force
       THEN SetCode(Unset) /\ inUnset' = TRUE
       ELSE UNCHANGED <<out, saved, inUnset>>
  /\ forgotten' = IF force THEN sent ELSE forgotten
  /\ raced' = (raced \/ Used)
  /\ UNCHANGED <<deviceVars, key, part, inKey, handlingVars, profileVars, last,
                 accepted, unheard>>

-----------------------------------------------------------------------------
(* remanSetSecurityProfile.                                                *)

(* The code to expect after telegram n: an explicit one is higher.         *)
CodeAfter(n) == IF explicit THEN n % Codes ELSE (n + 1) % Codes

(* For what the device sends.  A code that is not set is taken from the    *)
(* call before the message leaves, and not saved.                          *)
SendOutbound ==
  /\ profile = "none"
  /\ profile' = "out"
  /\ \/ /\ out # Unset
        /\ told' = IF explicit THEN out ELSE last
        /\ UNCHANGED <<out, last, unheard>>
     \/ /\ out = Unset
        /\ \E n \in Named :
             told' = n /\ last' = n /\ out' = CodeAfter(n)
        /\ unheard' = TRUE
  /\ raced' = (raced \/ Used)
  /\ UNCHANGED <<deviceVars, keyVars, force, parameter, saved, handlingVars,
                 accepted, forgotten>>

(* For what Homegear sends to the device.                                  *)
SendInbound ==
  /\ profile = "none"
  /\ profile' = "in"
  /\ inUnset' = FALSE
  /\ UNCHANGED <<deviceVars, key, part, inKey, force, parameter, out, saved,
                 handlingVars, told, historyVars>>

(* A code that was forgotten during the call is set again, and saved.      *)
SetIfUnset ==
  IF out = Unset
    THEN \E n \in Named : SetCode(CodeAfter(n))
    ELSE UNCHANGED <<out, saved>>

Ended == profile' = "none" /\ told' = 0

(* The device acknowledged a profile with a key: it goes on from the code  *)
(* it was told.                                                            *)
OutboundKeySet ==
  /\ profile = "out"
  /\ key' = "full"
  /\ force' = TRUE
  /\ SetIfUnset
  /\ sent' = told /\ since' = told /\ last' = told
  /\ accepted' = {}
  /\ forgotten' = 0
  /\ unheard' = FALSE
  /\ Ended
  /\ UNCHANGED <<explicit, part, inKey, inUnset, parameter, handlingVars, raced>>

(* One with the key that stands for none.                                  *)
OutboundKeyCleared ==
  /\ profile = "out"
  /\ key' = "none"
  /\ force' = inKey
  /\ SetIfUnset
  /\ Ended
  /\ UNCHANGED <<deviceVars, part, inKey, inUnset, parameter, handlingVars,
                 historyVars>>

InboundAcknowledged ==
  /\ profile = "in"
  /\ inKey' \in BOOLEAN
  /\ force' = (inKey' \/ key # "none")
  /\ inUnset' = FALSE
  /\ Ended
  /\ UNCHANGED <<deviceVars, key, part, parameter, out, saved, handlingVars,
                 historyVars>>

(* What is the key of the device no longer, if it has taken the profile.   *)
KeyUnheard ==
  key' \in IF profile = "out" /\ key = "full" THEN {key, "broken"} ELSE {key}

NotAcknowledged ==
  /\ profile # "none"
  /\ KeyUnheard
  /\ Ended
  /\ UNCHANGED <<deviceVars, part, inKey, inUnset, force, parameter, out, saved,
                 handlingVars, historyVars>>

-----------------------------------------------------------------------------

(* saveVariables, with every change of the peer's links.                   *)
SaveVariables ==
  /\ saved' = out
  /\ UNCHANGED <<deviceVars, keyVars, force, parameter, out, handlingVars,
                 profileVars, historyVars>>

(* load: the parameter overrides what initializeCentralConfig concluded    *)
(* from the keys.                                                          *)
LoadedForce == parameter

(* Faulty variant: this code skips ahead as the other one does, and wraps. *)
RestartSkipping ==
  /\ out' = IF saved = Unset THEN 1 ELSE saved + 2
  /\ UNCHANGED saved
  /\ inUnset' = FALSE
  /\ inKey' = (inKey \/ key # "none")
  /\ part' = "none"
  /\ force' = LoadedForce
  /\ pc' = [t \in Thread |-> "idle"]
  /\ number' = [t \in Thread |-> 0]
  /\ match' = [t \in Thread |-> 0]
  /\ KeyUnheard
  /\ Ended
  /\ accepted' = IF explicit THEN {} ELSE accepted
  /\ UNCHANGED <<deviceVars, parameter, last, forgotten, raced, unheard>>

(* loadVariables.  The other code skips ahead, and is not unset any more   *)
(* if it was.                                                              *)
Restart ==
  /\ out' = saved
  /\ UNCHANGED saved
  /\ inUnset' = FALSE
  /\ inKey' = (inKey \/ key # "none")
  /\ part' = "none"
  /\ force' = LoadedForce
  /\ pc' = [t \in Thread |-> "idle"]
  /\ number' = [t \in Thread |-> 0]
  /\ match' = [t \in Thread |-> 0]
  /\ KeyUnheard
  /\ Ended
  /\ accepted' = IF explicit THEN {} ELSE accepted
  /\ UNCHANGED <<deviceVars, parameter, last, forgotten, raced, unheard>>

Next ==
  \/ Transmit
  \/ FirstTeachIn
  \/ SecondTeachIn
  \/ \E t \in Thread :
       \/ \E n \in 1..MaxSent : Verify(t, n)
       \/ TakeCode(t)
       \/ Accept(t)
  \/ SetEncryption
  \/ SendOutbound
  \/ SendInbound
  \/ OutboundKeySet
  \/ OutboundKeyCleared
  \/ InboundAcknowledged
  \/ NotAcknowledged
  \/ SaveVariables
  \/ Restart

Spec == Init /\ [][Next]_vars

-----------------------------------------------------------------------------
(* Correctness.                                                            *)

(* The conditions of the properties: no two threads handled telegrams of   *)
(* the peer at the same time, or one while its code or key was changed, and*)
(* the code is not one that the device was sent and did not acknowledge.   *)
Settled == ~raced /\ ~unheard

(* No telegram is accepted twice, whether it arrives through two           *)
(* interfaces, late, or after a restart (of an explicit device: in the     *)
(* same run, as its code is not saved), as long as the code is settled.    *)
AcceptedOnce ==
  [][\A t \in Thread : Accept(t) /\ Settled' => number[t] \notin accepted]_vars

(* A telegram newer than what was received, by up to Window telegrams if   *)
(* the code is implicit, passes the check, whatever was lost before it and *)
(* whether the program was restarted, the implicit code started again or   *)
(* the device got a new profile.  Those of an explicit device are refused  *)
(* as long as Homegear has no code to send with.                           *)
FreshVerifies ==
  Settled /\ ~Used /\ key = "full" /\ out # Unset =>
    \A n \in Arriving :
      /\ n > last
      /\ IF explicit THEN n < Codes /\ ~inUnset ELSE n <= last + Window
      => Verifies(n)

(* The telegram after the last one that was received is decrypted with its *)
(* own code, and every telegram of an explicit device is.                  *)
ReadableInSequence ==
  [][\A t \in Thread :
       Accept(t) /\ Settled' /\ (explicit \/ number[t] = last + 1)
         => KeyStream(out) = KeyStream(number[t])]_vars

(* Switching ENCRYPTION off forgets the code: what the device had sent with*)
(* its key by then is not accepted afterwards, late or once more, whether  *)
(* the program was restarted, wrote all variables, or got a new code from a*)
(* teach-in or a profile that the device acknowledged.                     *)
ForgottenIsRefused ==
  [][\A t \in Thread : Accept(t) /\ Settled' => number[t] > forgotten]_vars
=============================================================================
