-------------------------- MODULE InboundCode_proofs --------------------------
(***************************************************************************)
(* Proofs about the rolling code of what a device sends, for any number of *)
(* interfaces, telegrams and codes and any window that is not wider than   *)
(* the codes less the delay: the types, that no telegram is accepted       *)
(* twice, that a fresh one verifies and is read with its own code, and     *)
(* that a code that was forgotten stays so until the next teach-in.        *)
(***************************************************************************)
EXTENDS InboundCode, Integers, TLAPS

Busy(t) == pc[t] # "idle"

(* What a thread has verified is a telegram and its code, or one that has  *)
(* the same low bytes.                                                     *)
HandlingInv ==
  \A t \in Thread :
    /\ pc[t] = "taken" => explicit
    /\ Busy(t) =>
         /\ number[t] \in Nat \ {0}
         /\ IF explicit THEN match[t] = number[t] % Codes
                        ELSE match[t] % Codes = number[t] % Codes

(* What counts as received has been sent, unless threads raced or the code *)
(* is one that the device did not acknowledge; so have the telegrams that  *)
(* are forgotten, in any case.                                             *)
SentInv ==
  /\ forgotten <= sent
  /\ ~raced => \A t \in Thread : Busy(t) => number[t] <= sent
  /\ Settled => last <= sent

(* The code of an implicit device is saved, unless a profile has set it,   *)
(* and is that of the telegram after the last one received, up to full     *)
(* turns of the codes.                                                     *)
ImplicitInv ==
  ~explicit =>
    /\ saved \in {out, Unset}
    /\ ~raced /\ out # Unset => out % Codes = (last + 1) % Codes

(* That of an explicit device is not higher than the last telegram, and    *)
(* what is saved is not higher than that, unless two threads raced.        *)
ExplicitInv ==
  explicit /\ ~raced =>
    /\ out # Unset => out <= last
    /\ saved # Unset => out # Unset /\ saved <= out

(* Without a race one thread at a time handles a telegram, and none while  *)
(* the device is told a code; what is verified is newer than what is       *)
(* received, and that is newer than what is forgotten.                     *)
OnceInv ==
  ~raced =>
    /\ \A t, u \in Thread : Busy(t) /\ Busy(u) => t = u
    /\ \A t \in Thread : Busy(t) => out # Unset
    /\ profile = "out" =>
         /\ \A t \in Thread : ~Busy(t)
         /\ out # Unset /\ told = IF explicit THEN out ELSE last
    /\ explicit => \A t \in Thread : Busy(t) =>
         IF pc[t] = "taken" THEN out = match[t] /\ last = number[t]
                            ELSE out < match[t]

AcceptedInv ==
  Settled /\ out # Unset =>
    /\ ~explicit =>
         /\ forgotten <= last
         /\ \A a \in accepted : a <= last
         /\ \A t \in Thread : Busy(t) => last < number[t]
    /\ explicit =>
         /\ forgotten = 0
         /\ \A a \in accepted : a % Codes <= out
         /\ \A t \in Thread : Busy(t) =>
              \A a \in accepted : a % Codes < match[t]

IInv ==
  /\ TypeOK
  /\ HandlingInv
  /\ SentInv
  /\ ImplicitInv
  /\ ExplicitInv
  /\ OnceInv
  /\ AcceptedInv

-----------------------------------------------------------------------------
(* Codes are compared by their low bytes: arithmetic modulo the number of  *)
(* codes.                                                                  *)
LEMMA Quotient ==
  ASSUME NEW C \in Int, C > 0, NEW a \in Int
  PROVE  /\ a % C \in 0..(C - 1)
         /\ a \div C \in Int
         /\ a = C * (a \div C) + (a % C)
  OBVIOUS

(* A remainder is not larger than the number, and is its own remainder.    *)
LEMMA Remainder ==
  ASSUME NEW C \in Int, C > 0, NEW a \in Nat
  PROVE  /\ a % C \in 0..(C - 1)
         /\ a % C <= a
         /\ a < C => a % C = a
         /\ (a % C) % C = a % C
  OBVIOUS

(* A number has one remainder.                                             *)
LEMMA UniqueRemainder ==
  ASSUME NEW C \in Int, C > 0, NEW p \in Int, NEW q \in Int,
         NEW r \in 0..(C - 1), NEW s \in 0..(C - 1), C * p + r = C * q + s
  PROVE  r = s
<1>1. \A x, y \in Int : x < y => C * x + C <= C * y
  OBVIOUS
<1>2. ~(p < q) /\ ~(q < p)
  BY <1>1
<1> QED
  BY <1>2

(* Codes that agree still agree after as many telegrams more.              *)
LEMMA ShiftCodes ==
  ASSUME NEW C \in Int, C > 0, NEW a \in Int, NEW b \in Int, NEW d \in Int,
         a % C = b % C
  PROVE  (a + d) % C = (b + d) % C
<1> DEFINE x == a \div C
           y == b \div C
           z == (a + d) \div C
           w == (b + d) \div C
           m == (a + d) % C
           n == (b + d) % C
           p == z - x
           q == w - y
<1>1. /\ x \in Int /\ y \in Int /\ z \in Int /\ w \in Int
      /\ a = C * x + (a % C)
      /\ b = C * y + (b % C)
      /\ a + d = C * z + m
      /\ b + d = C * w + n
      /\ m \in 0..(C - 1) /\ n \in 0..(C - 1)
      /\ a % C \in Int
  BY Quotient
<1> HIDE DEF x, y, z, w, m, n
<1>2. C * z + m - C * x = C * w + n - C * y
  BY <1>1
<1>3. C * p + m = C * q + n /\ p \in Int /\ q \in Int
  BY <1>1, <1>2
<1> HIDE DEF p, q
<1>4. m = n
  BY <1>1, <1>3, UniqueRemainder
<1> QED
  BY <1>4 DEF m, n

(* Of two codes that agree, one that is less than a turn behind is not     *)
(* behind at all.                                                          *)
LEMMA NotBehind ==
  ASSUME NEW C \in Int, C > 0, NEW a \in Int, NEW b \in Int, a % C = b % C,
         b < a + C
  PROVE  b <= a
<1> DEFINE x == a \div C
           y == b \div C
<1>1. /\ x \in Int /\ y \in Int
      /\ a = C * x + (a % C)
      /\ b = C * y + (b % C)
      /\ a % C \in Int
  BY Quotient
<1> HIDE DEF x, y
<1>2. \A i, j \in Int : i < j => C * i + C <= C * j
  OBVIOUS
<1>3. ~(x < y)
  BY <1>1, <1>2
<1>4. \A i, j \in Int : i <= j => C * i <= C * j
  OBVIOUS
<1>5. C * y <= C * x
  BY <1>1, <1>3, <1>4
<1>6. C * y \in Int /\ C * x \in Int
  BY <1>1
<1> QED
  BY <1>1, <1>5, <1>6

(* There are codes.                                                        *)
LEMMA CodesFacts == Codes \in Int /\ Codes > 0
  BY InboundCodeAssumption

(* The window finds a telegram that is newer than the last one only: it    *)
(* ends before the code comes round to one that is late.                   *)
LEMMA MatchIsNewer ==
  ASSUME TypeOK, SentInv, ImplicitInv, Settled, ~explicit, out # Unset,
         NEW n \in Arriving, NEW c \in ImplicitMatches(n)
  PROVE  last < n
<1> DEFINE d == c - out
           e == last + 1 + d
<1>1. /\ out \in Nat /\ last \in Nat /\ sent \in Nat /\ n \in Nat
      /\ sent - n < MaxDelay /\ last <= sent
      /\ out % Codes = (last + 1) % Codes
  BY DEF TypeOK, SentInv, ImplicitInv, Settled, Arriving, Unset
<1>2. c \in out..(out + Window - 1) /\ c % Codes = n % Codes
  BY DEF ImplicitMatches, Cmac
<1>3. d \in 0..(Window - 1) /\ c = out + d
  BY <1>1, <1>2, InboundCodeAssumption
<1> HIDE DEF d
<1>4. e % Codes = n % Codes
  <2> DEFINE b == last + 1
  <2>1. out \in Int /\ b \in Int /\ d \in Int /\ out % Codes = b % Codes
    BY <1>1, <1>3, InboundCodeAssumption
  <2> HIDE DEF b
  <2>2. (out + d) % Codes = (b + d) % Codes
    BY <2>1, CodesFacts, ShiftCodes
  <2> QED
    BY <1>2, <1>3, <2>2 DEF b
<1>5. e < n + Codes
  BY <1>1, <1>3, InboundCodeAssumption
<1>6. e \in Int /\ n \in Int
  BY <1>1, <1>3, InboundCodeAssumption
<1> HIDE DEF e
<1>7. e <= n
  BY <1>4, <1>5, <1>6, CodesFacts, NotBehind
<1> QED
  BY <1>1, <1>3, <1>7, InboundCodeAssumption DEF e

(* What a thread may verify.                                               *)
Verified(n, c) ==
  IF explicit THEN c = n % Codes /\ out < c
              ELSE c % Codes = n % Codes /\ (Settled => last < n)

(* The check keeps a copy of the code that fits the telegram.              *)
LEMMA VerifyEffect ==
  ASSUME TypeOK, SentInv, ImplicitInv, NEW t \in Thread, NEW n \in 1..MaxSent,
         Verify(t, n)
  PROVE  /\ pc[t] = "idle" /\ n \in Nat \ {0} /\ n <= sent /\ out # Unset
         /\ pc' = [pc EXCEPT ![t] = "verified"]
         /\ number' = [number EXCEPT ![t] = n]
         /\ raced' = (raced \/ Used)
         /\ UNCHANGED <<deviceVars, keyVars, force, parameter, out, saved,
                        profileVars, last, accepted, forgotten, unheard>>
         /\ \E c \in Nat : Verified(n, c) /\ match' = [match EXCEPT ![t] = c]
<1>1. n \in Arriving /\ out # Unset
  BY DEF Verify, Verifies
<1>2. n \in Nat \ {0} /\ n <= sent
  BY <1>1 DEF Arriving, TypeOK
<1>3. CASE explicit
  <2>1. n % Codes \in Nat
    BY <1>2, CodesFacts, Remainder
  <2>2. Verified(n, n % Codes) /\ match' = [match EXCEPT ![t] = n % Codes]
    BY <1>3 DEF Verify, Verifies, Verified
  <2> QED
    BY <1>1, <1>2, <2>1, <2>2 DEF Verify
<1>4. CASE ~explicit
  <2>1. PICK c \in ImplicitMatches(n) : match' = [match EXCEPT ![t] = c]
    BY <1>4 DEF Verify
  <2>2. c \in Nat /\ c % Codes = n % Codes
    BY <1>1 DEF ImplicitMatches, Cmac, TypeOK
  <2>3. Settled => last < n
    BY <1>1, <1>4, MatchIsNewer
  <2>4. Verified(n, c)
    BY <1>4, <2>2, <2>3 DEF Verified
  <2> QED
    BY <1>1, <1>2, <2>1, <2>2, <2>4 DEF Verify
<1> QED
  BY <1>3, <1>4

(* The code that a profile names is one the device can be at.              *)
LEMMA NamedFacts ==
  ASSUME TypeOK, NEW n \in Named
  PROVE  /\ n \in Nat /\ CodeAfter(n) \in Nat
         /\ explicit => CodeAfter(n) = n
         /\ ~explicit => CodeAfter(n) % Codes = (n + 1) % Codes
<1>1. n \in Nat /\ n < Codes /\ n + 1 \in Nat
  BY InboundCodeAssumption
<1> DEFINE m == n + 1
<1>2. /\ n % Codes = n
      /\ m % Codes \in Nat /\ (m % Codes) % Codes = m % Codes
  BY <1>1, CodesFacts, Remainder
<1> QED
  BY <1>1, <1>2 DEF CodeAfter

(* A device stays as it is built.                                          *)
LEMMA SameDevice == [Next]_vars => UNCHANGED explicit
<1> SUFFICES ASSUME [Next]_vars PROVE explicit' = explicit
  OBVIOUS
<1> USE DEF deviceVars
<1>1. CASE Transmit \/ FirstTeachIn \/ SecondTeachIn \/ SetEncryption
           \/ SaveVariables \/ Restart
  BY <1>1 DEF Transmit, FirstTeachIn, SecondTeachIn, SetEncryption,
     SaveVariables, Restart
<1>2. CASE SendOutbound \/ SendInbound \/ OutboundKeySet \/ OutboundKeyCleared
           \/ InboundAcknowledged \/ NotAcknowledged
  BY <1>2 DEF SendOutbound, SendInbound, OutboundKeySet, OutboundKeyCleared,
     InboundAcknowledged, NotAcknowledged
<1>3. ASSUME NEW t \in Thread,
             (\E n \in 1..MaxSent : Verify(t, n)) \/ TakeCode(t) \/ Accept(t)
      PROVE  explicit' = explicit
  BY <1>3 DEF Verify, TakeCode, Accept, Received
<1>4. CASE UNCHANGED vars
  BY <1>4 DEF vars
<1> QED
  BY <1>1, <1>2, <1>3, <1>4 DEF Next

-----------------------------------------------------------------------------
LEMMA TypeStep == TypeOK /\ SentInv /\ ImplicitInv /\ [Next]_vars => TypeOK'
<1> SUFFICES ASSUME TypeOK, SentInv, ImplicitInv, [Next]_vars
             PROVE  TypeOK'
  OBVIOUS
<1> USE InboundCodeAssumption DEF TypeOK, deviceVars, keyVars, handlingVars,
   profileVars, historyVars
<1>1. CASE Transmit
  BY <1>1 DEF Transmit
<1>2. CASE FirstTeachIn
  <2>1. (sent + 1) % Codes \in Nat
    BY CodesFacts, Remainder
  <2>2. out' \in Nat /\ saved' = out'
    BY <1>2, <2>1 DEF FirstTeachIn, SetCode
  <2>3. raced' \in BOOLEAN /\ last' = sent /\ accepted' = {} /\ unheard' = FALSE
    BY <1>2 DEF FirstTeachIn, Used
  <2> QED
    BY <1>2, <2>2, <2>3 DEF FirstTeachIn
<1>3. CASE SecondTeachIn
  BY <1>3 DEF SecondTeachIn
<1>4. ASSUME NEW t \in Thread, NEW n \in 1..MaxSent, Verify(t, n) PROVE TypeOK'
  <2>1. PICK c \in Nat : match' = [match EXCEPT ![t] = c]
    BY <1>4, VerifyEffect
  <2>2. /\ pc' = [pc EXCEPT ![t] = "verified"]
        /\ number' = [number EXCEPT ![t] = n]
        /\ raced' = (raced \/ Used)
        /\ UNCHANGED <<deviceVars, keyVars, force, parameter, out, saved,
                       profileVars, last, accepted, forgotten, unheard>>
    BY <1>4, VerifyEffect
  <2>3. raced' \in BOOLEAN
    BY <2>2 DEF Used
  <2> QED
    BY <2>1, <2>2, <2>3
<1>5. ASSUME NEW t \in Thread, TakeCode(t) PROVE TypeOK'
  BY <1>5 DEF TakeCode
<1>6. ASSUME NEW t \in Thread, Accept(t) PROVE TypeOK'
  <2>1. accepted' \subseteq Nat /\ last' \in Nat
    BY <1>6 DEF Accept, Received
  <2>2. {out', saved'} \subseteq Nat \cup {Unset}
    BY <1>6 DEF Accept, SetCode
  <2>3. /\ pc' \in [Thread -> {"idle", "verified", "taken"}]
        /\ number' \in [Thread -> Nat]
        /\ match' \in [Thread -> Nat]
    BY <1>6 DEF Accept, Received
  <2> QED
    BY <1>6, <2>1, <2>2, <2>3 DEF Accept, Received
<1>7. CASE SetEncryption
  BY <1>7 DEF SetEncryption, SetCode, Used
<1>8. CASE SaveVariables
  BY <1>8 DEF SaveVariables
<1>9. CASE Restart
  <2>1. accepted' \subseteq Nat /\ key' \in {"none", "full", "broken"}
    BY <1>9 DEF Restart, KeyUnheard
  <2>2. {inKey', inUnset', force'} \subseteq BOOLEAN
    BY <1>9 DEF Restart, LoadedForce
  <2>3. /\ pc' \in [Thread -> {"idle", "verified", "taken"}]
        /\ number' \in [Thread -> Nat]
        /\ match' \in [Thread -> Nat]
    BY <1>9 DEF Restart
  <2>4. /\ out' = saved /\ part' = "none" /\ profile' = "none" /\ told' = 0
        /\ UNCHANGED <<deviceVars, parameter, saved, last, forgotten, raced,
                       unheard>>
    BY <1>9 DEF Restart, Ended
  <2> QED
    BY <2>1, <2>2, <2>3, <2>4
<1>10. CASE SendOutbound
  <2>1. raced' \in BOOLEAN /\ profile' = "out"
    BY <1>10 DEF SendOutbound, Used
  <2>2. told' \in Nat /\ last' \in Nat /\ out' \in Nat \cup {Unset}
        /\ unheard' \in BOOLEAN
    BY <1>10, NamedFacts DEF SendOutbound
  <2> QED
    BY <1>10, <2>1, <2>2 DEF SendOutbound
<1>11. CASE SendInbound
  BY <1>11 DEF SendInbound
<1>12. CASE OutboundKeySet
  <2>1. {out', saved'} \subseteq Nat \cup {Unset}
    BY <1>12, NamedFacts DEF OutboundKeySet, SetIfUnset, SetCode
  <2>2. {sent', since', told', last', forgotten'} \subseteq Nat /\ accepted' = {}
        /\ profile' = "none" /\ key' = "full" /\ force' = TRUE
        /\ unheard' = FALSE
    BY <1>12 DEF OutboundKeySet, Ended
  <2>3. UNCHANGED <<explicit, part, inKey, inUnset, parameter, handlingVars, raced>>
    BY <1>12 DEF OutboundKeySet
  <2> QED
    BY <2>1, <2>2, <2>3
<1>13. CASE OutboundKeyCleared
  <2>1. {out', saved'} \subseteq Nat \cup {Unset}
    BY <1>13, NamedFacts DEF OutboundKeyCleared, SetIfUnset, SetCode
  <2> QED
    BY <1>13, <2>1 DEF OutboundKeyCleared, Ended
<1>14. CASE InboundAcknowledged
  <2>1. inKey' \in BOOLEAN /\ force' \in BOOLEAN /\ inUnset' = FALSE
        /\ told' = 0 /\ profile' = "none"
    BY <1>14 DEF InboundAcknowledged, Ended
  <2>2. UNCHANGED <<deviceVars, key, part, parameter, out, saved, handlingVars,
                    historyVars>>
    BY <1>14 DEF InboundAcknowledged
  <2>3. {explicit', force', parameter', inKey', inUnset', raced', unheard'}
          \subseteq BOOLEAN
    BY <2>1, <2>2
  <2> QED
    BY <2>1, <2>2, <2>3
<1>15. CASE NotAcknowledged
  BY <1>15 DEF NotAcknowledged, KeyUnheard, Ended
<1>16. CASE UNCHANGED vars
  BY <1>16 DEF vars
<1> QED
  BY <1>1, <1>2, <1>3, <1>4, <1>5, <1>6, <1>7, <1>8, <1>9, <1>10, <1>11, <1>12,
     <1>13, <1>14, <1>15, <1>16 DEF Next

(* A telegram and its code stay as they were verified.                     *)
LEMMA HandlingStep ==
  TypeOK /\ HandlingInv /\ SentInv /\ ImplicitInv /\ [Next]_vars => HandlingInv'
<1> SUFFICES ASSUME TypeOK, HandlingInv, SentInv, ImplicitInv, [Next]_vars
             PROVE  HandlingInv'
  OBVIOUS
<1> USE InboundCodeAssumption DEF TypeOK, HandlingInv, Busy, deviceVars, keyVars,
   handlingVars, profileVars, historyVars
<1>1. ASSUME NEW t \in Thread, NEW n \in 1..MaxSent, Verify(t, n)
      PROVE  HandlingInv'
  <2>1. PICK c \in Nat : Verified(n, c) /\ match' = [match EXCEPT ![t] = c]
    BY <1>1, VerifyEffect
  <2>2. /\ n \in Nat \ {0}
        /\ pc' = [pc EXCEPT ![t] = "verified"]
        /\ number' = [number EXCEPT ![t] = n]
        /\ UNCHANGED explicit
    BY <1>1, VerifyEffect
  <2> QED
    BY <2>1, <2>2 DEF Verified
<1>2. ASSUME NEW t \in Thread, TakeCode(t) PROVE HandlingInv'
  BY <1>2 DEF TakeCode
<1>3. ASSUME NEW t \in Thread, Accept(t) PROVE HandlingInv'
  BY <1>3 DEF Accept, Received
<1>4. CASE Restart
  BY <1>4 DEF Restart
<1>5. CASE UNCHANGED <<explicit, pc, number, match>>
  BY <1>5
<1>6. UNCHANGED <<explicit, pc, number, match>> \/ Restart
      \/ \E t \in Thread : \/ \E n \in 1..MaxSent : Verify(t, n)
                           \/ TakeCode(t)
                           \/ Accept(t)
  BY DEF Next, vars, Transmit, FirstTeachIn, SecondTeachIn, SetEncryption,
     SaveVariables, SendOutbound, SendInbound, OutboundKeySet,
     OutboundKeyCleared, InboundAcknowledged, NotAcknowledged
<1> QED
  BY <1>1, <1>2, <1>3, <1>4, <1>5, <1>6

(* The device's number is not below those that count as received.          *)
LEMMA SentStep ==
  TypeOK /\ SentInv /\ ImplicitInv /\ OnceInv /\ [Next]_vars => SentInv'
<1> SUFFICES ASSUME TypeOK, SentInv, ImplicitInv, OnceInv, [Next]_vars
             PROVE  SentInv'
  OBVIOUS
<1> USE DEF TypeOK, SentInv, Settled, Busy, deviceVars, keyVars, handlingVars,
   profileVars, historyVars
<1>1. CASE Transmit
  BY <1>1 DEF Transmit
<1>2. CASE FirstTeachIn
  <2>1. UNCHANGED <<sent, forgotten, pc, number>> /\ last' = sent
        /\ (~raced' => ~Used)
    BY <1>2 DEF FirstTeachIn
  <2> QED
    BY <2>1 DEF Used
<1>3. ASSUME NEW t \in Thread, NEW n \in 1..MaxSent, Verify(t, n) PROVE SentInv'
  <2>1. /\ n \in Nat /\ n <= sent
        /\ pc' = [pc EXCEPT ![t] = "verified"]
        /\ number' = [number EXCEPT ![t] = n]
        /\ (~raced' => ~raced)
        /\ UNCHANGED <<sent, last, forgotten, unheard>>
    BY <1>3, VerifyEffect
  <2> QED
    BY <2>1
<1>4. ASSUME NEW t \in Thread, TakeCode(t) PROVE SentInv'
  BY <1>4 DEF TakeCode
<1>5. ASSUME NEW t \in Thread, Accept(t) PROVE SentInv'
  BY <1>5 DEF Accept, Received
<1>6. CASE SetEncryption
  <2>1. forgotten' \in {sent, forgotten} /\ (~raced' => ~raced)
        /\ UNCHANGED <<sent, pc, number, last, unheard>>
    BY <1>6 DEF SetEncryption
  <2> QED
    BY <2>1
<1>7. CASE Restart
  BY <1>7 DEF Restart
<1>8. CASE SendOutbound
  <2>1. UNCHANGED <<sent, forgotten, pc, number>> /\ (~raced' => ~raced)
        /\ (unheard' \/ UNCHANGED <<last, unheard>>)
    BY <1>8 DEF SendOutbound
  <2> QED
    BY <2>1
<1>9. CASE OutboundKeySet
  <2>1. profile = "out" /\ sent' = told /\ last' = told /\ forgotten' = 0
        /\ UNCHANGED <<pc, number, raced>>
    BY <1>9 DEF OutboundKeySet
  <2> QED
    BY <2>1 DEF OnceInv
<1>10. CASE UNCHANGED <<sent, pc, number, last, forgotten, raced, unheard>>
  BY <1>10
<1>11. \/ UNCHANGED <<sent, pc, number, last, forgotten, raced, unheard>>
       \/ Transmit \/ FirstTeachIn \/ SetEncryption \/ Restart \/ SendOutbound
       \/ OutboundKeySet
       \/ \E t \in Thread : \/ \E n \in 1..MaxSent : Verify(t, n)
                            \/ TakeCode(t)
                            \/ Accept(t)
  BY DEF Next, vars, SecondTeachIn, SaveVariables, SendInbound,
     OutboundKeyCleared, InboundAcknowledged, NotAcknowledged
<1> QED
  BY <1>1, <1>2, <1>3, <1>4, <1>5, <1>6, <1>7, <1>8, <1>9, <1>10, <1>11

(* The code after the one that matched belongs to the next telegram.       *)
LEMMA ImplicitStep ==
  TypeOK /\ HandlingInv /\ ImplicitInv /\ OnceInv /\ [Next]_vars => ImplicitInv'
<1> SUFFICES ASSUME TypeOK, HandlingInv, ImplicitInv, OnceInv, [Next]_vars,
                    ~explicit
             PROVE  ImplicitInv'
  BY SameDevice DEF ImplicitInv
<1> USE InboundCodeAssumption DEF TypeOK, ImplicitInv, Unset, deviceVars,
   keyVars, handlingVars, profileVars, historyVars
<1>1. CASE FirstTeachIn
  <2>1. (sent + 1) % Codes \in Nat
        /\ ((sent + 1) % Codes) % Codes = (sent + 1) % Codes
    BY CodesFacts, Remainder
  <2>2. out' = (sent + 1) % Codes /\ saved' = out' /\ last' = sent
    BY <1>1 DEF FirstTeachIn, SetCode
  <2> QED
    BY <2>1, <2>2
<1>2. ASSUME NEW t \in Thread, NEW n \in 1..MaxSent, Verify(t, n)
      PROVE  ImplicitInv'
  BY <1>2 DEF Verify
<1>3. ASSUME NEW t \in Thread, TakeCode(t) PROVE ImplicitInv'
  BY <1>3 DEF TakeCode
<1>4. ASSUME NEW t \in Thread, Accept(t) PROVE ImplicitInv'
  <2>1. last' = number[t] /\ out' = match[t] + 1 /\ saved' = match[t] + 1
    BY <1>4 DEF Accept, Received, SetCode
  <2>2. match[t] % Codes = number[t] % Codes
    BY <1>4 DEF Accept, HandlingInv, Busy
  <2>3. (match[t] + 1) % Codes = (number[t] + 1) % Codes
    <3> DEFINE m == match[t]
               n == number[t]
               d == 1
    <3>1. d \in Int /\ m \in Int /\ n \in Int /\ m % Codes = n % Codes
      BY <2>2
    <3> HIDE DEF m, n, d
    <3>2. (m + d) % Codes = (n + d) % Codes
      BY <3>1, CodesFacts, ShiftCodes
    <3> QED
      BY <3>2 DEF m, n, d
  <2> QED
    BY <2>1, <2>3
<1>5. CASE SetEncryption
  <2>1. CASE force
    BY <1>5, <2>1 DEF SetEncryption, SetCode
  <2>2. CASE ~force
    BY <1>5, <2>2 DEF SetEncryption
  <2> QED
    BY <2>1, <2>2
<1>6. CASE SaveVariables
  BY <1>6 DEF SaveVariables
<1>7. CASE Restart
  BY <1>7 DEF Restart
<1>8. CASE SendOutbound
  <2>1. CASE out # Unset
    BY <1>8, <2>1 DEF SendOutbound
  <2>2. CASE out = Unset
    <3>1. PICK n \in Named : last' = n /\ out' = CodeAfter(n)
      BY <1>8, <2>2 DEF SendOutbound
    <3>2. saved' = Unset
      BY <1>8, <2>2 DEF SendOutbound
    <3> QED
      BY <3>1, <3>2, NamedFacts
  <2> QED
    BY <2>1, <2>2
<1>9. CASE OutboundKeySet
  <2>1. profile = "out" /\ last' = told /\ raced' = raced
        /\ (out # Unset => UNCHANGED <<out, saved>>)
        /\ (out = Unset => saved' = out')
    BY <1>9 DEF OutboundKeySet, SetIfUnset, SetCode
  <2>2. ~raced => out # Unset /\ told = last
    BY <2>1 DEF OnceInv
  <2> QED
    BY <2>1, <2>2
<1>10. CASE OutboundKeyCleared
  <2>1. profile = "out" /\ last' = last /\ raced' = raced
        /\ (out # Unset => UNCHANGED <<out, saved>>)
        /\ (out = Unset => saved' = out')
    BY <1>10 DEF OutboundKeyCleared, SetIfUnset, SetCode
  <2>2. ~raced => out # Unset
    BY <2>1 DEF OnceInv
  <2> QED
    BY <2>1, <2>2
<1>11. CASE UNCHANGED <<out, saved, last, raced>>
  BY <1>11
<1>12. \/ UNCHANGED <<out, saved, last, raced>>
       \/ FirstTeachIn \/ SetEncryption \/ SaveVariables \/ Restart
       \/ SendOutbound \/ OutboundKeySet \/ OutboundKeyCleared
       \/ \E t \in Thread : \/ \E n \in 1..MaxSent : Verify(t, n)
                            \/ TakeCode(t)
                            \/ Accept(t)
  BY DEF Next, vars, Transmit, SecondTeachIn, SendInbound, InboundAcknowledged,
     NotAcknowledged
<1> QED
  BY <1>1, <1>2, <1>3, <1>4, <1>5, <1>6, <1>7, <1>8, <1>9, <1>10, <1>11, <1>12

(* What is saved is older than what is in use.                             *)
LEMMA ExplicitStep ==
  TypeOK /\ HandlingInv /\ ExplicitInv /\ OnceInv /\ [Next]_vars => ExplicitInv'
<1> SUFFICES ASSUME TypeOK, HandlingInv, ExplicitInv, OnceInv, [Next]_vars,
                    explicit, ~raced'
             PROVE  ExplicitInv'
  BY SameDevice DEF ExplicitInv
<1> USE InboundCodeAssumption DEF TypeOK, ExplicitInv, Unset, deviceVars,
   keyVars, handlingVars, profileVars, historyVars
<1>1. CASE FirstTeachIn
  BY <1>1 DEF FirstTeachIn
<1>2. ASSUME NEW t \in Thread, NEW n \in 1..MaxSent, Verify(t, n)
      PROVE  ExplicitInv'
  BY <1>2 DEF Verify
<1>3. ASSUME NEW t \in Thread, TakeCode(t) PROVE ExplicitInv'
  <2>1. /\ ~raced /\ pc[t] = "verified" /\ out' = match[t] /\ last' = number[t]
        /\ UNCHANGED saved
    BY <1>3 DEF TakeCode
  <2>2. match[t] = number[t] % Codes /\ number[t] \in Nat
    BY <2>1 DEF HandlingInv, Busy
  <2>3. match[t] <= number[t] /\ match[t] \in Nat
    BY <2>2, CodesFacts, Remainder
  <2>4. out < match[t] /\ out # Unset
    BY <2>1 DEF OnceInv, Busy
  <2> QED
    BY <2>1, <2>3, <2>4
<1>4. ASSUME NEW t \in Thread, Accept(t) PROVE ExplicitInv'
  <2>1. pc[t] = "taken" /\ ~raced /\ last' = number[t] /\ UNCHANGED <<out, saved>>
    BY <1>4 DEF Accept, Received
  <2>2. last = number[t]
    BY <2>1 DEF OnceInv, Busy
  <2> QED
    BY <2>1, <2>2
<1>5. CASE SetEncryption
  <2>1. CASE force
    BY <1>5, <2>1 DEF SetEncryption, SetCode
  <2>2. CASE ~force
    BY <1>5, <2>2 DEF SetEncryption
  <2> QED
    BY <2>1, <2>2
<1>6. CASE SaveVariables
  BY <1>6 DEF SaveVariables
<1>7. CASE Restart
  BY <1>7 DEF Restart
<1>8. CASE SendOutbound
  <2>1. CASE out # Unset
    BY <1>8, <2>1 DEF SendOutbound
  <2>2. CASE out = Unset
    <3>1. PICK n \in Named : last' = n /\ out' = CodeAfter(n)
      BY <1>8, <2>2 DEF SendOutbound
    <3>2. saved' = saved /\ ~raced
      BY <1>8, <2>2 DEF SendOutbound
    <3>3. saved = Unset
      BY <2>2, <3>2
    <3> QED
      BY <3>1, <3>2, <3>3, NamedFacts
  <2> QED
    BY <2>1, <2>2
<1>9. CASE OutboundKeySet
  <2>1. profile = "out" /\ last' = told /\ ~raced
        /\ (out # Unset => UNCHANGED <<out, saved>>)
    BY <1>9 DEF OutboundKeySet, SetIfUnset
  <2>2. out # Unset /\ told = out
    BY <2>1 DEF OnceInv
  <2> QED
    BY <2>1, <2>2
<1>10. CASE OutboundKeyCleared
  <2>1. profile = "out" /\ last' = last /\ ~raced
        /\ (out # Unset => UNCHANGED <<out, saved>>)
    BY <1>10 DEF OutboundKeyCleared, SetIfUnset
  <2>2. out # Unset
    BY <2>1 DEF OnceInv
  <2> QED
    BY <2>1, <2>2
<1>11. CASE UNCHANGED <<out, saved, last, raced>>
  BY <1>11
<1>12. \/ UNCHANGED <<out, saved, last, raced>>
       \/ FirstTeachIn \/ SetEncryption \/ SaveVariables \/ Restart
       \/ SendOutbound \/ OutboundKeySet \/ OutboundKeyCleared
       \/ \E t \in Thread : \/ \E n \in 1..MaxSent : Verify(t, n)
                            \/ TakeCode(t)
                            \/ Accept(t)
  BY DEF Next, vars, Transmit, SecondTeachIn, SendInbound, InboundAcknowledged,
     NotAcknowledged
<1> QED
  BY <1>1, <1>2, <1>3, <1>4, <1>5, <1>6, <1>7, <1>8, <1>9, <1>10, <1>11, <1>12

(* One thread at a time verifies and takes a code.                         *)
LEMMA OnceStep ==
  TypeOK /\ HandlingInv /\ SentInv /\ ImplicitInv /\ OnceInv /\ [Next]_vars
    => OnceInv'
<1> SUFFICES ASSUME TypeOK, HandlingInv, SentInv, ImplicitInv, OnceInv,
                    [Next]_vars, ~raced'
             PROVE  OnceInv'
  BY DEF OnceInv
<1>0. explicit' = explicit
  BY SameDevice
<1> USE InboundCodeAssumption DEF TypeOK, OnceInv, Busy, deviceVars, keyVars,
   handlingVars, profileVars, historyVars
<1>1. CASE FirstTeachIn
  <2>1. ~explicit /\ pc' = pc /\ profile' = profile /\ ~Used
    BY <1>1 DEF FirstTeachIn
  <2> QED
    BY <1>0, <2>1 DEF Used
<1>2. ASSUME NEW t \in Thread, NEW n \in 1..MaxSent, Verify(t, n) PROVE OnceInv'
  <2>1. PICK c \in Nat : Verified(n, c) /\ match' = [match EXCEPT ![t] = c]
    BY <1>2, VerifyEffect
  <2>2. /\ out # Unset
        /\ pc' = [pc EXCEPT ![t] = "verified"]
        /\ raced' = (raced \/ Used)
        /\ UNCHANGED <<out, profile, explicit>>
    BY <1>2, VerifyEffect
  <2>3. ~raced /\ profile # "out" /\ \A u \in Thread : pc[u] = "idle"
    BY <2>2 DEF Used
  <2>4. pc'[t] = "verified" /\ match'[t] = c
        /\ \A u \in Thread : u # t => pc'[u] = "idle"
    BY <2>1, <2>2, <2>3
  <2> QED
    BY <2>1, <2>2, <2>3, <2>4 DEF Verified
<1>3. ASSUME NEW t \in Thread, TakeCode(t) PROVE OnceInv'
  <2>1. /\ explicit /\ pc[t] = "verified" /\ out' = match[t] /\ ~raced
        /\ pc' = [pc EXCEPT ![t] = "taken"]
        /\ last' = number[t]
        /\ UNCHANGED <<explicit, number, match, profile>>
    BY <1>3 DEF TakeCode
  <2>2. profile # "out" /\ \A u \in Thread : u # t => pc'[u] = "idle"
    BY <2>1
  <2>3. out' # Unset
    BY <2>1 DEF Unset
  <2> QED
    BY <2>1, <2>2, <2>3
<1>4. ASSUME NEW t \in Thread, Accept(t) PROVE OnceInv'
  <2>1. Busy(t) /\ ~raced /\ pc' = [pc EXCEPT ![t] = "idle"]
        /\ UNCHANGED profile
    BY <1>4 DEF Accept, Received
  <2>2. profile # "out" /\ \A u \in Thread : pc'[u] = "idle"
    BY <2>1
  <2> QED
    BY <2>1, <2>2
<1>5. CASE SetEncryption
  <2>1. ~raced /\ ~Used /\ UNCHANGED <<pc, profile>>
    BY <1>5 DEF SetEncryption
  <2> QED
    BY <2>1 DEF Used
<1>6. CASE Restart
  <2>1. profile' = "none" /\ \A u \in Thread : pc'[u] = "idle"
    BY <1>6 DEF Restart, Ended
  <2> QED
    BY <2>1
<1>7. CASE SendOutbound
  <2>1. ~raced /\ ~Used /\ pc' = pc
    BY <1>7 DEF SendOutbound
  <2>2. \A u \in Thread : pc'[u] = "idle"
    BY <2>1 DEF Used
  <2>3. CASE out # Unset
    <3>1. out' = out /\ last' = last /\ told' = IF explicit THEN out ELSE last
      BY <1>7, <2>3 DEF SendOutbound
    <3> QED
      BY <1>0, <2>2, <2>3, <3>1
  <2>4. CASE out = Unset
    <3>1. PICK n \in Named : told' = n /\ last' = n /\ out' = CodeAfter(n)
      BY <1>7, <2>4 DEF SendOutbound
    <3>2. out' \in Nat /\ (explicit => out' = n)
      BY <3>1, NamedFacts
    <3>3. out' # Unset /\ told' = IF explicit' THEN out' ELSE last'
      BY <1>0, <3>1, <3>2 DEF Unset
    <3> QED
      BY <2>2, <3>3
  <2> QED
    BY <2>3, <2>4
<1>8. CASE SendInbound
  <2>1. profile' = "in" /\ UNCHANGED <<explicit, out, last, pc, number, match, raced>>
    BY <1>8 DEF SendInbound
  <2> QED
    BY <2>1
<1>9. CASE OutboundKeySet \/ OutboundKeyCleared
  <2>1. profile = "out" /\ profile' = "none" /\ ~raced /\ pc' = pc
    BY <1>9 DEF OutboundKeySet, OutboundKeyCleared, Ended
  <2> QED
    BY <2>1
<1>10. CASE InboundAcknowledged \/ NotAcknowledged
  <2>1. profile' = "none"
        /\ UNCHANGED <<explicit, out, last, pc, number, match, raced>>
    BY <1>10 DEF InboundAcknowledged, NotAcknowledged, Ended
  <2> QED
    BY <2>1
<1>11. CASE UNCHANGED <<explicit, out, last, pc, number, match, profile, told, raced>>
  BY <1>11
<1>12. \/ UNCHANGED <<explicit, out, last, pc, number, match, profile, told, raced>>
       \/ FirstTeachIn \/ SetEncryption \/ Restart \/ SendOutbound
       \/ SendInbound \/ OutboundKeySet \/ OutboundKeyCleared
       \/ InboundAcknowledged \/ NotAcknowledged
       \/ \E t \in Thread : \/ \E n \in 1..MaxSent : Verify(t, n)
                            \/ TakeCode(t)
                            \/ Accept(t)
  BY DEF Next, vars, Transmit, SecondTeachIn, SaveVariables
<1> QED
  BY <1>1, <1>2, <1>3, <1>4, <1>5, <1>6, <1>7, <1>8, <1>9, <1>10, <1>11, <1>12

(* A telegram that is verified is newer than those accepted before.        *)
LEMMA AcceptedStep ==
  IInv /\ [Next]_vars => AcceptedInv'
<1> SUFFICES ASSUME IInv, [Next]_vars, Settled', out' # Unset
             PROVE  AcceptedInv'
  BY DEF AcceptedInv, Unset
<1>0. explicit' = explicit
  BY SameDevice
<1> USE InboundCodeAssumption DEF IInv, TypeOK, AcceptedInv, Settled, Busy,
   Unset, deviceVars, keyVars, handlingVars, profileVars, historyVars
<1>1. CASE FirstTeachIn
  <2>1. ~explicit /\ pc' = pc /\ ~Used /\ accepted' = {} /\ last' = sent
        /\ forgotten' = forgotten
    BY <1>1 DEF FirstTeachIn
  <2> QED
    BY <1>0, <2>1 DEF Used, SentInv
<1>2. ASSUME NEW t \in Thread, NEW n \in 1..MaxSent, Verify(t, n)
      PROVE  AcceptedInv'
  <2>1. PICK c \in Nat : Verified(n, c) /\ match' = [match EXCEPT ![t] = c]
    BY <1>2, VerifyEffect
  <2>2. /\ n \in Nat /\ out # Unset
        /\ pc' = [pc EXCEPT ![t] = "verified"]
        /\ number' = [number EXCEPT ![t] = n]
        /\ raced' = (raced \/ Used)
        /\ UNCHANGED <<out, last, accepted, forgotten, unheard>>
    BY <1>2, VerifyEffect
  <2>3. Settled /\ \A u \in Thread : pc[u] = "idle"
    BY <2>2 DEF Used
  <2>4. pc'[t] = "verified" /\ number'[t] = n /\ match'[t] = c
        /\ \A u \in Thread : u # t => pc'[u] = "idle"
    BY <2>1, <2>2, <2>3
  <2>5. CASE explicit
    <3>1. out < c /\ out \in Nat
      BY <2>1, <2>2, <2>5 DEF Verified
    <3>2. \A a \in accepted : a % Codes < c
      <4> SUFFICES ASSUME NEW a \in accepted
                   PROVE  a % Codes < c
        OBVIOUS
      <4> DEFINE m == a % Codes
      <4>1. m \in Nat /\ m <= out
        BY <2>2, <2>3, <2>5, CodesFacts, Remainder
      <4>2. out < c /\ out \in Nat /\ c \in Nat
        BY <3>1, <2>1
      <4> HIDE DEF m
      <4>3. m < c
        BY <4>1, <4>2
      <4> QED
        BY <4>3 DEF m
    <3>3. forgotten = 0 /\ \A a \in accepted : a % Codes <= out
      BY <2>2, <2>3, <2>5
    <3> QED
      BY <1>0, <2>2, <2>4, <2>5, <3>2, <3>3
  <2>6. CASE ~explicit
    <3>1. last < n
      BY <2>1, <2>3, <2>6 DEF Verified
    <3>2. forgotten <= last /\ \A a \in accepted : a <= last
      BY <2>2, <2>3, <2>6
    <3> QED
      BY <1>0, <2>2, <2>4, <2>6, <3>1, <3>2
  <2> QED
    BY <2>5, <2>6
<1>3. ASSUME NEW t \in Thread, TakeCode(t) PROVE AcceptedInv'
  <2>1. /\ explicit /\ pc[t] = "verified" /\ out' = match[t] /\ Settled
        /\ pc' = [pc EXCEPT ![t] = "taken"]
        /\ UNCHANGED <<match, accepted, forgotten>>
    BY <1>3 DEF TakeCode
  <2>2. out # Unset /\ \A u \in Thread : u # t => pc'[u] = "idle"
    BY <2>1 DEF OnceInv
  <2>3. /\ forgotten = 0
        /\ \A a \in accepted : a % Codes \in Nat /\ a % Codes < match[t]
    BY <2>1, <2>2, CodesFacts, Remainder
  <2>4. \A a \in accepted : a % Codes <= match[t]
    BY <2>3
  <2> QED
    BY <1>0, <2>1, <2>2, <2>3, <2>4
<1>4. ASSUME NEW t \in Thread, Accept(t) PROVE AcceptedInv'
  <2>1. /\ Busy(t) /\ accepted' = accepted \cup {number[t]}
        /\ last' = number[t] /\ forgotten' = forgotten /\ Settled
        /\ pc' = [pc EXCEPT ![t] = "idle"]
    BY <1>4 DEF Accept, Received
  <2>2. out # Unset /\ \A u \in Thread : pc'[u] = "idle"
    BY <2>1 DEF OnceInv
  <2>3. CASE explicit
    <3>1. /\ out' = out /\ out = match[t] /\ match[t] = number[t] % Codes
          /\ match[t] \in Nat
      BY <1>4, <2>1, <2>3 DEF Accept, OnceInv, HandlingInv
    <3>2. /\ forgotten = 0
          /\ \A a \in accepted : a % Codes <= out
      BY <2>1, <2>2, <2>3
    <3>3. \A a \in accepted' : a % Codes <= out'
      BY <2>1, <3>1, <3>2
    <3> QED
      BY <1>0, <2>1, <2>2, <2>3, <3>2, <3>3
  <2>4. CASE ~explicit
    <3>1. /\ forgotten <= last
          /\ \A a \in accepted : a \in Nat /\ a <= last
          /\ last < number[t]
      BY <2>1, <2>2, <2>4
    <3> QED
      BY <1>0, <2>1, <2>2, <2>4, <3>1
  <2> QED
    BY <2>3, <2>4
<1>5. CASE SetEncryption
  <2>1. ~force /\ ~raced /\ UNCHANGED <<out, forgotten>>
    BY <1>5 DEF SetEncryption, SetCode
  <2>2. UNCHANGED <<pc, number, match, last, accepted, unheard>>
    BY <1>5 DEF SetEncryption
  <2> QED
    BY <1>0, <2>1, <2>2
<1>6. CASE Restart
  <2>1. /\ out' = saved /\ UNCHANGED <<last, forgotten, raced, unheard>>
        /\ \A u \in Thread : pc'[u] = "idle"
        /\ accepted' = IF explicit THEN {} ELSE accepted
    BY <1>6 DEF Restart
  <2>2. out # Unset
    BY <2>1 DEF ImplicitInv, ExplicitInv
  <2> QED
    BY <1>0, <2>1, <2>2
<1>7. CASE SendOutbound
  <2>1. out # Unset /\ UNCHANGED <<out, last, unheard>>
    BY <1>7 DEF SendOutbound
  <2>2. ~raced /\ UNCHANGED <<pc, number, match, accepted, forgotten>>
    BY <1>7 DEF SendOutbound
  <2> QED
    BY <1>0, <2>1, <2>2
<1>8. CASE OutboundKeySet
  <2>1. profile = "out" /\ ~raced /\ pc' = pc /\ accepted' = {}
        /\ last' = told /\ forgotten' = 0
    BY <1>8 DEF OutboundKeySet
  <2>2. \A u \in Thread : pc'[u] = "idle"
    BY <2>1 DEF OnceInv
  <2> QED
    BY <1>0, <2>1, <2>2
<1>9. CASE OutboundKeyCleared
  <2>1. profile = "out" /\ ~raced
        /\ (out # Unset => out' = out)
        /\ UNCHANGED <<pc, number, match, last, accepted, forgotten, unheard>>
    BY <1>9 DEF OutboundKeyCleared, SetIfUnset
  <2>2. out # Unset
    BY <2>1 DEF OnceInv
  <2> QED
    BY <1>0, <2>1, <2>2
<1>10. CASE UNCHANGED <<out, pc, number, match, last, accepted, forgotten, raced,
                        unheard>>
  BY <1>0, <1>10
<1>11. \/ UNCHANGED <<out, pc, number, match, last, accepted, forgotten, raced,
                      unheard>>
       \/ FirstTeachIn \/ SetEncryption \/ Restart \/ SendOutbound
       \/ OutboundKeySet \/ OutboundKeyCleared
       \/ \E t \in Thread : \/ \E n \in 1..MaxSent : Verify(t, n)
                            \/ TakeCode(t)
                            \/ Accept(t)
  BY DEF Next, vars, Transmit, SecondTeachIn, SaveVariables, SendInbound,
     InboundAcknowledged, NotAcknowledged
<1> QED
  BY <1>1, <1>2, <1>3, <1>4, <1>5, <1>6, <1>7, <1>8, <1>9, <1>10, <1>11

-----------------------------------------------------------------------------
(* The inductive invariant holds at the start, and every step keeps it.    *)
LEMMA InitIInv == Init => IInv
<1> SUFFICES ASSUME Init PROVE IInv
  OBVIOUS
<1> USE InboundCodeAssumption DEF Init
<1>1. sent = 0 /\ last = 0 /\ accepted = {} /\ raced = FALSE /\ unheard = FALSE
      /\ forgotten = 0 /\ profile = "none" /\ told = 0 /\ since = 0
      /\ \A t \in Thread : pc[t] = "idle"
  OBVIOUS
<1>2. explicit \in BOOLEAN /\ saved = out /\ out \in {0, Unset}
      /\ (explicit => out = 0) /\ (~explicit => out = Unset)
  OBVIOUS
<1>3. TypeOK
  <2>1. {explicit, force, parameter, inKey, inUnset, raced, unheard}
          \subseteq BOOLEAN
    OBVIOUS
  <2>2. /\ pc \in [Thread -> {"idle", "verified", "taken"}]
        /\ number \in [Thread -> Nat]
        /\ match \in [Thread -> Nat]
    OBVIOUS
  <2>3. key \in {"none", "full", "broken"} /\ part = "none"
    OBVIOUS
  <2> HIDE DEF Init
  <2> QED
    BY <1>1, <1>2, <2>1, <2>2, <2>3 DEF TypeOK
<1>4. HandlingInv /\ SentInv
  BY <1>1 DEF HandlingInv, SentInv, Busy
<1>5. ImplicitInv
  BY <1>1, <1>2 DEF ImplicitInv
<1>6. ExplicitInv
  BY <1>1, <1>2 DEF ExplicitInv, Unset
<1>7. OnceInv
  BY <1>1 DEF OnceInv, Busy
<1>8. AcceptedInv
  BY <1>1 DEF AcceptedInv, Busy
<1> QED
  BY <1>3, <1>4, <1>5, <1>6, <1>7, <1>8 DEF IInv

(* A step keeps the conjunction of what it keeps.                          *)
LEMMA NextIInv == IInv /\ [Next]_vars => IInv'
  BY TypeStep, HandlingStep, SentStep, ImplicitStep, ExplicitStep, OnceStep,
     AcceptedStep DEF IInv

(* The invariant holds in every state the program can be in.               *)
THEOREM Invariance == Spec => []IInv
  BY InitIInv, NextIInv, PTL DEF Spec

(* Every variable keeps its type: what is computed with a code is one, or  *)
(* the value that stands for none.                                         *)
THEOREM TypeInvariant == Spec => []TypeOK
  BY Invariance, PTL DEF IInv

(* A telegram the device sends next, or soon, passes the check of          *)
(* packetReceived and decryptPacket.                                       *)
THEOREM Verifiable == Spec => []FreshVerifies
<1>1. ASSUME IInv PROVE FreshVerifies
  <2> SUFFICES ASSUME Settled, key = "full", out # Unset, NEW n \in Arriving,
                      n > last,
                      IF explicit THEN n < Codes /\ ~inUnset
                                  ELSE n <= last + Window
               PROVE  Verifies(n)
    BY DEF FreshVerifies
  <2>1. out \in Nat /\ last \in Nat /\ n \in Nat
    BY <1>1 DEF IInv, TypeOK, Arriving, Unset
  <2>2. CASE explicit
    <3>1. out <= last
      BY <1>1, <2>2 DEF IInv, ExplicitInv, Settled
    <3>2. n % Codes = n
      BY <2>1, <2>2, CodesFacts, Remainder
    <3> QED
      BY <2>1, <2>2, <3>1, <3>2 DEF Verifies
  <2>3. CASE ~explicit
    <3> DEFINE d == n - (last + 1)
               b == last + 1
    <3>1. out % Codes = b % Codes
      BY <1>1, <2>3 DEF IInv, ImplicitInv, Settled
    <3>2. /\ d \in 0..(Window - 1) /\ n = b + d
          /\ out \in Int /\ b \in Int /\ d \in Int
      BY <2>1, <2>3, InboundCodeAssumption
    <3> HIDE DEF d, b
    <3>3. (out + d) % Codes = (b + d) % Codes
      BY <3>1, <3>2, CodesFacts, ShiftCodes
    <3>4. out + d \in out..(out + Window - 1)
      BY <2>1, <3>2, InboundCodeAssumption
    <3>5. out + d \in ImplicitMatches(n)
      BY <3>2, <3>3, <3>4 DEF ImplicitMatches, Cmac
    <3> QED
      BY <2>3, <3>5 DEF Verifies
  <2> QED
    BY <2>2, <2>3
<1> QED
  BY <1>1, Invariance, PTL

(* What is accepted while the code is settled: a telegram that was not     *)
(* accepted before, is newer than what is forgotten, and is decrypted with *)
(* its own code if it is the next.                                         *)
LEMMA AcceptEffect ==
  ASSUME IInv, NEW t \in Thread, Accept(t), Settled'
  PROVE  /\ number[t] \notin accepted
         /\ number[t] > forgotten
         /\ explicit \/ number[t] = last + 1 =>
              KeyStream(out) = KeyStream(number[t])
<1>1. Busy(t) /\ Settled /\ number[t] \in Nat \ {0}
  BY DEF Accept, Received, Busy, IInv, HandlingInv, Settled
<1>2. out # Unset
  BY <1>1 DEF IInv, OnceInv, Settled
<1>3. CASE explicit
  <2>1. pc[t] = "taken" /\ match[t] = number[t] % Codes /\ out = match[t]
    BY <1>1, <1>3 DEF Accept, IInv, HandlingInv, OnceInv, Settled
  <2>2. out % Codes = number[t] % Codes
    BY <1>1, <2>1, CodesFacts, Remainder
  <2>3. forgotten = 0 /\ \A a \in accepted : a % Codes < match[t]
    BY <1>1, <1>2, <1>3 DEF IInv, AcceptedInv
  <2>4. number[t] \notin accepted
    <3>1. number[t] % Codes \in Int
      BY <1>1, CodesFacts, Remainder
    <3> QED
      BY <2>1, <2>3, <3>1
  <2> QED
    BY <1>1, <2>2, <2>3, <2>4 DEF KeyStream
<1>4. CASE ~explicit
  <2>1. /\ forgotten <= last
        /\ \A a \in accepted : a <= last
        /\ last < number[t]
    BY <1>1, <1>2, <1>4 DEF IInv, AcceptedInv
  <2>2. last \in Nat /\ forgotten \in Nat
    BY DEF IInv, TypeOK
  <2>3. out % Codes = (last + 1) % Codes
    BY <1>1, <1>2, <1>4 DEF IInv, ImplicitInv, Settled
  <2> QED
    BY <1>1, <1>4, <2>1, <2>2, <2>3 DEF KeyStream
<1> QED
  BY <1>3, <1>4

(* No telegram is accepted twice, by whatever interfaces and after         *)
(* whatever restart its copies arrive.                                     *)
THEOREM OnlyOnce == Spec => AcceptedOnce
<1>1. IInv /\ [Next]_vars =>
        [\A t \in Thread :
           Accept(t) /\ Settled' => number[t] \notin accepted]_vars
  BY AcceptEffect
<1> QED
  BY <1>1, Invariance, PTL DEF Spec, AcceptedOnce

(* decryptPacket decrypts a telegram in sequence with the code it was      *)
(* encrypted with.                                                         *)
THEOREM Readable == Spec => ReadableInSequence
<1>1. IInv /\ [Next]_vars =>
        [\A t \in Thread :
           Accept(t) /\ Settled' /\ (explicit \/ number[t] = last + 1)
             => KeyStream(out) = KeyStream(number[t])]_vars
  BY AcceptEffect
<1> QED
  BY <1>1, Invariance, PTL DEF Spec, ReadableInSequence

(* What the device had sent when ENCRYPTION was switched off is not        *)
(* accepted afterwards, whatever restarts, writes of all variables,        *)
(* teach-ins and calls of remanSetSecurityProfile follow.                  *)
THEOREM Forgotten == Spec => ForgottenIsRefused
<1>1. IInv /\ [Next]_vars =>
        [\A t \in Thread : Accept(t) /\ Settled' => number[t] > forgotten]_vars
  BY AcceptEffect
<1> QED
  BY <1>1, Invariance, PTL DEF Spec, ForgottenIsRefused
=============================================================================
