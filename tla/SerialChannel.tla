---------------------------- MODULE SerialChannel ----------------------------
(***************************************************************************)
(* What the serial side of an EnOcean interface promises to the threads    *)
(* that send: a half-duplex command channel.  One command is open at a     *)
(* time, the frames coming back are handled by one listen thread in the    *)
(* order in which they arrived, and an exchange counts as answered only if *)
(* an acknowledgement was handled while it was open.  The promise does not *)
(* include that the acknowledgement answers this very command.             *)
(*                                                                         *)
(* SerialExchange implements this specification; RadioExchange is built    *)
(* on top of it and puts radio telegrams on the same line.                 *)
(***************************************************************************)
EXTENDS Sequences, Naturals

CONSTANTS Caller,    \* threads that send through the interface
          Telegram,  \* the radio telegrams that may share the line
          Ack,       \* a RESPONSE (type 0x02) frame of the transceiver
          None       \* no thread

ASSUME ChannelAssumption == None \notin Caller /\ Ack \notin Telegram

VARIABLES owner,     \* the thread whose command is open
          phase,     \* how far that command is
          line,      \* frames not yet handled by the listen thread
          answered   \* an acknowledgement was handled for the open command

channelVars == <<owner, phase, line, answered>>

Phase == {"free", "open", "sent"}

ChannelTypeOK ==
  /\ owner \in Caller \cup {None}
  /\ phase \in Phase
  /\ line \in Seq(Telegram \cup {Ack})
  /\ answered \in BOOLEAN

ChannelInit ==
  /\ owner = None
  /\ phase = "free"
  /\ line = <<>>
  /\ answered = FALSE

-----------------------------------------------------------------------------
Begin(c) ==
  /\ owner = None
  /\ owner' = c
  /\ phase' = "open"
  /\ UNCHANGED <<line, answered>>

(* The command reaches the transceiver, which will acknowledge it, or the  *)
(* device is closed and nothing is written.                                *)
Transmit(c) ==
  /\ owner = c
  /\ phase = "open"
  /\ phase' = "sent"
  /\ line' \in {line, Append(line, Ack)}
  /\ UNCHANGED <<owner, answered>>

(* The listen thread hands the oldest frame, an acknowledgement, to        *)
(* whichever command is open.                                              *)
Deliver ==
  /\ owner # None
  /\ line # <<>>
  /\ Head(line) = Ack
  /\ line' = Tail(line)
  /\ answered' = TRUE
  /\ UNCHANGED <<owner, phase>>

(* The oldest frame is damaged, nobody waits for it, or its reader came    *)
(* too late.                                                               *)
Lose ==
  /\ line # <<>>
  /\ line' = Tail(line)
  /\ UNCHANGED <<owner, phase, answered>>

(* Closing the device discards what was buffered.                          *)
Discard ==
  /\ line' = <<>>
  /\ UNCHANGED <<owner, phase, answered>>

End(c) ==
  /\ owner = c
  /\ phase = "sent"
  /\ owner' = None
  /\ phase' = "free"
  /\ answered' = FALSE
  /\ UNCHANGED line

ChannelNext ==
  \/ \E c \in Caller : Begin(c) \/ Transmit(c) \/ End(c)
  \/ Deliver
  \/ Lose
  \/ Discard

ChannelSpec == ChannelInit /\ [][ChannelNext]_channelVars
=============================================================================
