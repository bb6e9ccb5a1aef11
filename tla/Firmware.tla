------------------------------- MODULE Firmware --------------------------------
(***************************************************************************)
(* Firmware updates of EnOceanCentral, beside the repeaters of Meshing: a  *)
(* call starts the update thread, and the worker thread runs updates of    *)
(* its own.  Devices in the bootloader are sent the block one of them      *)
(* waits for, by broadcast or addressed, until each was heard to be done   *)
(* or is given up.                                                         *)
(*                                                                         *)
(* A device that waits for a block takes it, misses it, or starts again,   *)
(* with the first block or with its old firmware; other blocks do not      *)
(* concern it.  All devices are of one type, and the version of the file   *)
(* is "new".                                                               *)
(***************************************************************************)
EXTENDS Meshing, Sequences

CONSTANTS
  Updater,         \* the thread that calls start
  Worker,
  Updatable,       \* peers with kFirmwareUpdates
  LastBlock,       \* 0x7F, the first is 0x0A
  MaxBlockRetries, \* 20
  MaxTotalRetries  \* 1000

ASSUME FirmwareAssumption ==
  /\ Updater # Worker
  /\ Updatable \subseteq Peer
  /\ {LastBlock, MaxBlockRetries, MaxTotalRetries} \subseteq Nat \ {0}

VARIABLES
  node,    \* [peer -> the device: Old or New firmware, or the block it
           \* waits for]
  version, \* [peer -> the version in the database; "boot" stands for 1]
  update,  \* [thread -> its update]
  left     \* history: devices that left the bootloader with the old firmware

firmwareVars == <<node, version, update, left>>
vars == <<meshingVars, updating, budget, firmwareVars>>

Block == 1..LastBlock
Old == 0
New == LastBlock + 1
NoUpdate == [pc |-> "idle", wide |-> {}, single |-> {}, broadcast |-> FALSE,
             ids |-> {}, rest |-> {}, success |-> {}, fresh |-> <<>>,
             old |-> <<>>, list |-> <<>>, block |-> 0, repeat |-> FALSE,
             next |-> 0]

(* UpdateData.                                                             *)
Entry(p, block) ==
  [peer |-> p, block |-> block, retries |-> 0, total |-> 0, abort |-> FALSE]

FirmwareTypeOK ==
  /\ node \in [Updatable -> Block \cup {Old, New}]
  /\ version \in [Updatable -> {"old", "boot", "new"}]
  /\ left \subseteq Updatable
  /\ \A u \in {Updater, Worker} :
       /\ update[u].pc \in {"idle", "test", "set", "group", "begin", "enter",
                            "choose", "send", "ask", "end", "fallback"}
       /\ update[u].block \in Block \cup {0}
       /\ \A i \in DOMAIN update[u].list :
            /\ update[u].list[i].retries \in 0..MaxBlockRetries
            /\ update[u].list[i].total \in 0..MaxTotalRetries

TypeOK == MeshingTypeOK /\ FirmwareTypeOK

Init ==
  /\ MeshingInit
  /\ node = [p \in Updatable |-> Old]
  /\ version = [p \in Updatable |-> "old"]
  /\ update = [u \in {Updater, Worker} |-> NoUpdate]
  /\ left = {}

Put(u, new) == update' = [update EXCEPT ![u] = new]
-----------------------------------------------------------------------------
(* What starts an update, and updateFirmwares.                             *)

Request(u, ids) ==
  /\ update[u].pc = "idle"
  /\ Cardinality(ids) <= budget.updates
  /\ budget' = [budget EXCEPT !.updates = @ - Cardinality(ids)]
  /\ Put(u, [NoUpdate EXCEPT !.pc = "test", !.ids = ids])
  /\ UNCHANGED <<updating, node, version, left>>

(* The call: the mutex is held until a finished thread is joined.          *)
UpdateFirmware ==
  /\ ~updating
  /\ \E ids \in SUBSET (Updatable \cap present) \ {{}} : Request(Updater, ids)

CheckForUpdates ==
  LET ids == {p \in Updatable \cap present : version[p] # "new"}
  IN ids # {} /\ Request(Worker, ids)

TestUpdating(u) ==
  /\ update[u].pc = "test"
  /\ Put(u, IF updating THEN NoUpdate ELSE [update[u] EXCEPT !.pc = "set"])
  /\ UNCHANGED <<updating, node, version, left>>

(* Peers with a repeater are updated one by one, and so are all unless     *)
(* broadcastUpdates is set.                                                *)
SortIds(u) ==
  LET w == update[u]
      wide == {p \in w.ids \cap present : repeaterId[p] = None}
  IN /\ w.pc = "set"
     /\ updating' = TRUE
     /\ \E b \in {{}, wide} :
          Put(u, [w EXCEPT !.pc = "group", !.wide = b,
                           !.single = (w.ids \cap present) \ b])
     /\ UNCHANGED <<node, version, left>>

NextGroup(u) ==
  LET w == update[u]
      Group(ids, broadcast) ==
        [NoUpdate EXCEPT !.pc = "begin", !.ids = ids, !.rest = ids,
                         !.single = w.single \ ids, !.broadcast = broadcast]
  IN /\ w.pc = "group"
     /\ \/ /\ w.wide # {}
           /\ Put(u, Group(w.wide, TRUE))
           /\ UNCHANGED updating
        \/ /\ w.wide = {}
           /\ \E p \in w.single : Put(u, Group({p}, FALSE))
           /\ UNCHANGED updating
        \/ /\ w.wide \cup w.single = {}
           /\ Put(u, NoUpdate)
           /\ updating' = FALSE
     /\ UNCHANGED <<node, version, left>>

(* After updateFirmware: the version is asked for, but a single update     *)
(* that was not a success ends them all.                                   *)
Finish(u, ok) ==
  LET w == update[u]
  IN IF w.broadcast \/ ok
     THEN Put(u, [NoUpdate EXCEPT !.pc = "fallback", !.rest = w.ids,
                                  !.single = w.single])
     ELSE Put(u, [NoUpdate EXCEPT !.pc = "group"])

(* queryFirmwareVersion answers 1 in the bootloader, or there is no answer. *)
Fallback(u) ==
  LET w == update[u]
  IN /\ w.pc = "fallback"
     /\ \/ /\ w.rest = {}
           /\ Put(u, [w EXCEPT !.pc = "group"])
           /\ UNCHANGED version
        \/ \E p \in w.rest :
             /\ Put(u, [w EXCEPT !.rest = @ \ {p}])
             /\ \/ UNCHANGED version
                \/ /\ p \in present
                   /\ version' = [version EXCEPT ![p] =
                        CASE node[p] \in Block -> "boot"
                          [] node[p] = Old -> "old"
                          [] node[p] = New -> "new"]
     /\ UNCHANGED <<updating, node, left>>
-----------------------------------------------------------------------------
(* updateFirmware: who can be updated.                                     *)

(* Another central is updating, there is no file, or no duty cycle left.   *)
BeginUpdate(u) ==
  /\ update[u].pc = "begin"
  /\ \/ Finish(u, FALSE)
     \/ Put(u, [update[u] EXCEPT !.pc = "enter"])
  /\ UNCHANGED <<updating, node, version, left>>

Entered(u, p, new) ==
  /\ update[u].pc = "enter"
  /\ p \in update[u].rest
  /\ Put(u, [new EXCEPT !.rest = @ \ {p}])
  /\ UNCHANGED <<updating, left>>

(* No answer, or bad reception, which counts as success, or nothing comes  *)
(* of the activation, whether it was obeyed or not.                        *)
EnterNot(u, p) ==
  /\ \/ Entered(u, p, update[u]) \/ Entered(u, p, [update[u] EXCEPT !.success = @ \cup {p}])
  /\ node' \in {node} \cup
       {[node EXCEPT ![p] = 1] : q \in {p} \cap {x \in present : node[p] = Old}}
  /\ UNCHANGED version

EnterNew(u, p) ==
  /\ p \in present
  /\ node[p] = New
  /\ Entered(u, p, [update[u] EXCEPT !.success = @ \cup {p}])
  /\ version' = [version EXCEPT ![p] = "new"]
  /\ UNCHANGED node

(* Into the bootloader, or there already: these are placed last.           *)
EnterBootloader(u, p) ==
  /\ p \in present
  /\ \/ /\ node[p] = Old
        /\ node' = [node EXCEPT ![p] = 1]
        /\ Entered(u, p, [update[u] EXCEPT !.fresh = Append(@, Entry(p, 1))])
     \/ /\ node[p] \in Block
        /\ Entered(u, p, [update[u] EXCEPT !.old = Append(@, Entry(p, node[p]))])
        /\ UNCHANGED node
  /\ UNCHANGED version

AllEntered(u) ==
  LET w == update[u]
  IN /\ w.pc = "enter"
     /\ w.rest = {}
     /\ IF w.fresh \o w.old = <<>>
        THEN Finish(u, TRUE)
        ELSE Put(u, [w EXCEPT !.pc = "choose", !.list = w.fresh \o w.old,
                              !.fresh = <<>>, !.old = <<>>])
     /\ UNCHANGED <<updating, node, version, left>>
-----------------------------------------------------------------------------
(* updateFirmware: the blocks.                                             *)

Active(x) ==
  /\ ~x.abort
  /\ x.block \in Block
  /\ x.retries < MaxBlockRetries
  /\ x.total < MaxTotalRetries

ActiveIn(w) == {i \in DOMAIN w.list : Active(w.list[i])}

ChooseBlock(u) ==
  LET w == update[u]
      others == {i \in ActiveIn(w) : w.list[i].block # w.block}
  IN /\ w.pc = "choose"
     /\ \/ /\ ActiveIn(w) = {}
           /\ Put(u, [w EXCEPT !.pc = "end"])
        \/ /\ ActiveIn(w) # {}
           /\ w.repeat \/ others = {}
           /\ Put(u, [w EXCEPT !.pc = "send"])
        \/ /\ ~w.repeat
           /\ \E first \in others :
                /\ \A i \in others : first <= i
                /\ Put(u, [w EXCEPT !.pc = "send", !.block = w.list[first].block])
     /\ UNCHANGED <<updating, node, version, left>>

(* Who a block is sent to.                                                 *)
Receivers(w) ==
  IF w.repeat
  THEN {w.list[i].peer : i \in {j \in ActiveIn(w) : w.list[j].block = w.block}}
         \cap present
  ELSE IF Len(w.list) = 1 THEN {w.list[1].peer} ELSE Updatable

(* Missed, taken, or starting again; New follows the last block.           *)
After(block) == {block, block + 1, 1, Old}

SendBlock(u) ==
  LET w == update[u]
      waiting == {p \in Receivers(w) : node[p] = w.block}
  IN /\ w.pc = "send"
     /\ \E outcome \in [waiting -> After(w.block)] :
          /\ node' = [p \in Updatable |->
                       IF p \in waiting THEN outcome[p] ELSE node[p]]
          /\ left' = left \cup {p \in waiting : outcome[p] = Old}
     /\ Put(u, [w EXCEPT !.pc = "ask", !.repeat = FALSE, !.next = 1])
     /\ UNCHANGED <<updating, version>>

(* The block of an answer; 0 stands for 0xA5, not in the bootloader.       *)
Answer(p) == IF node[p] \in Block THEN node[p] ELSE 0

(* Faulty variant: only repetitions count.                                 *)
RepetitionHeard(x, new, sent) ==
  [x EXCEPT !.block = IF new = sent THEN @ ELSE new,
            !.retries = IF new = sent THEN @ + 1 ELSE 0,
            !.total = IF new = sent THEN @ + 1 ELSE @]

(* The entry of a device that waits for block `new' after `sent'.          *)
Heard(x, new, sent) ==
  [x EXCEPT !.block = IF new = sent THEN @ ELSE new,
            !.retries = IF new = sent THEN @ + 1 ELSE 0,
            !.total = @ + 1]

AskBlock(u) ==
  LET w == update[u]
      x == w.list[w.next]
      onward == [w EXCEPT !.next = @ + 1]
  IN /\ w.pc = "ask"
     /\ IF w.next > Len(w.list) THEN Put(u, [w EXCEPT !.pc = "choose"])
        ELSE IF ~Active(x) \/ x.peer \notin present THEN Put(u, onward)
        ELSE \/ Put(u, [onward EXCEPT !.list[w.next].abort = TRUE])
             \/ Put(u, [onward EXCEPT
                  !.list[w.next] = Heard(x, Answer(x.peer), w.block),
                  !.repeat = @ \/ Answer(x.peer) = w.block])
     /\ UNCHANGED <<updating, node, version, left>>

(* Faulty variant: who did not fail is done.                               *)
DoneUnlessAborted(w) ==
  {w.list[i].peer : i \in {j \in DOMAIN w.list : ~w.list[j].abort}}

Done(w) == {w.list[i].peer : i \in {j \in DOMAIN w.list : w.list[j].block = 0}}

EndUpdate(u) ==
  LET w == update[u]
      done == Done(w)
  IN /\ w.pc = "end"
     /\ version' = [p \in Updatable |->
                     IF p \in done \cap present THEN "new" ELSE version[p]]
     /\ Finish(u, w.ids = w.success \cup done)
     /\ UNCHANGED <<updating, node, left>>
-----------------------------------------------------------------------------
UpdateStep(u) ==
  /\ \/ TestUpdating(u) \/ SortIds(u) \/ NextGroup(u) \/ Fallback(u)
     \/ BeginUpdate(u) \/ AllEntered(u)
     \/ \E p \in Updatable : EnterNot(u, p) \/ EnterNew(u, p) \/ EnterBootloader(u, p)
     \/ ChooseBlock(u) \/ SendBlock(u) \/ AskBlock(u) \/ EndUpdate(u)
  /\ UNCHANGED <<meshingVars, budget>>

Restart ==
  /\ MeshingRestart
  /\ update' = [u \in {Updater, Worker} |-> NoUpdate]
  /\ updating' = FALSE
  /\ UNCHANGED <<node, version, left>>

Next ==
  \/ MeshingNext /\ UNCHANGED <<updating, firmwareVars>>
  \/ /\ UpdateFirmware \/ CheckForUpdates
     /\ UNCHANGED meshingVars
  \/ \E u \in {Updater, Worker} : UpdateStep(u)
  \/ Restart

(* An update goes on: every exchange with a device, and every wait for     *)
(* duty cycle, ends after its timeout.                                     *)
Spec ==
  /\ Init
  /\ [][Next]_vars
  /\ \A u \in {Updater, Worker} : WF_vars(UpdateStep(u))
-----------------------------------------------------------------------------
(* The version in the database is not newer than the device's, also when   *)
(* two updates overlap (the worker and a call that test _updatingFirmware  *)
(* before either sets it), blocks are lost or the process ends: else       *)
(* nothing would update the device again.  A device that fell back to its  *)
(* old firmware answers as one that is done, so it is excepted.            *)
VersionIsTrue ==
  \A p \in Updatable \ left : version[p] = "new" => node[p] = New

(* An update ends, whatever the devices answer, unless a peer it waits for *)
(* was deleted: that one is passed over without being given up.            *)
UpdateEnds ==
  \A u \in {Updater, Worker} :
    update[u].pc # "idle" ~>
      \/ update[u].pc = "idle"
      \/ \E i \in DOMAIN update[u].list : update[u].list[i].peer \notin present
=============================================================================
