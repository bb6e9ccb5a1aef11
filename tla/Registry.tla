-------------------------------- MODULE Registry -------------------------------
(***************************************************************************)
(* The registry of peers of EnOceanCentral: the maps of peers, by serial   *)
(* number, id and address, the peers in the database, and what changes     *)
(* them: pairing by telegrams, remote commissioning from the thread of the *)
(* pairing mode or by a call, createDevice, deletion, and a restart.       *)
(*                                                                         *)
(* It is about the peers of one device, numbered in the order they are     *)
(* created: telegrams of it are handled by the receiving threads.  A       *)
(* telegram is for the peers of the device or, in pairing mode, a request  *)
(* for another one: always when there is no peer, and otherwise when no    *)
(* peer has its type (Unpaired); all requests are for one type.  A serial  *)
(* number is the device's address plus 0, 1, ...  A critical section of    *)
(* _peersMutex is one step.                                                *)
(*                                                                         *)
(* Radio exchanges and what the handlers of a telegram do take any time    *)
(* that ends.  Bounds: MaxPeers peers, MaxModes times pairing mode is      *)
(* started, with MaxTicks turns each, MaxCalls calls, MaxRestarts.         *)
(***************************************************************************)
EXTENDS Naturals, FiniteSets

CONSTANTS
  Receiver,  \* threads of interfaces
  Rpc,       \* threads of calls
  Timer,     \* the thread of the pairing mode
  None,
  Unpaired,  \* whether a peer may be asked for beside another
  MaxPeers, MaxModes, MaxTicks, MaxCalls, MaxRestarts

Thread == Receiver \cup Rpc \cup {Timer}

ASSUME RegistryAssumption ==
  /\ Receiver \cap Rpc = {}
  /\ Timer \notin Receiver \cup Rpc
  /\ None \notin Thread \cup Nat
  /\ Unpaired \in BOOLEAN
  /\ {MaxPeers, MaxModes, MaxTicks, MaxCalls, MaxRestarts} \subseteq Nat

VARIABLES
  bySerial,     \* _peersBySerial: [serial number -> peer or None]
  byId,         \* the peers in _peersById
  byAddress,    \* the peers in _peers
  stored,       \* the peers in the database
  serial,       \* [peer -> its serial number]
  created,      \* peers created so far
  job,          \* [thread -> what it does]
  pairing,      \* _pairing
  teachIn,      \* _pairingData: teach-in or remote commissioning
  stop,         \* stopPairingModeThread
  pairingMutex, \* the holder
  modeMutex,    \* the holder of pairingModeThreadMutex
  processed,    \* the device is in processedAddresses
  queue,        \* entries of remoteCommissioningAddressQueue
  budget,       \* what is left of the bounds
  rivals,       \* history: peers of creations that no mutex kept apart
  twice,        \* history: serial numbers two creations chose at a time, whose
                \* peer two threads deleted at a time, or that two peers had
                \* in the database when the process ended
  late          \* history: peers whose deletion did not wait any longer

maps == <<bySerial, byId, byAddress, stored, serial, created>>
modeVars == <<pairing, teachIn, stop, modeMutex, processed, queue>>
history == <<rivals, twice, late>>
vars == <<maps, job, modeVars, pairingMutex, budget, history>>

Peer == 1..MaxPeers
Serial == 0..MaxPeers

(* kind: how a peer is created; peer: the one created or deleted; seen:    *)
(* another was created meanwhile; uses: the peers it holds.                *)
Idle == [pc |-> "idle", kind |-> "none", peer |-> None, serial |-> 0,
         seen |-> {}, uses |-> {}, ticks |-> 0]

Creating == {"serial", "name", "save", "insert", "finish"}
Deleting == {"unlist", "wait", "purge"}

(* Who keeps a peer alive.                                                 *)
Holders(p) == {t \in Thread : p \in job[t].uses}

TypeOK ==
  /\ bySerial \in [Serial -> Peer \cup {None}]
  /\ {byId, byAddress, stored, rivals, late} \subseteq SUBSET Peer
  /\ serial \in [Peer -> Serial]
  /\ created \in 0..MaxPeers
  /\ \A t \in Thread :
       /\ job[t].pc \in Creating \cup Deleting \cup
            {"idle", "use", "lock", "request", "unlock", "check", "session",
             "join", "tick", "lookup"}
       /\ job[t].peer \in Peer \cup {None}
       /\ job[t].serial \in Serial
       /\ job[t].uses \subseteq Peer
       /\ job[t].ticks \in 0..MaxTicks
  /\ {pairing, teachIn, stop, processed} \subseteq BOOLEAN
  /\ pairingMutex \in Receiver \cup {None}
  /\ modeMutex \in Rpc \cup {None}
  /\ queue \in 0..MaxModes
  /\ twice \subseteq Serial

Init ==
  /\ bySerial = [s \in Serial |-> None]
  /\ byId = {}
  /\ byAddress = {}
  /\ stored = {}
  /\ serial = [p \in Peer |-> 0]
  /\ created = 0
  /\ job = [t \in Thread |-> Idle]
  /\ pairing = FALSE
  /\ teachIn = TRUE
  /\ stop = FALSE
  /\ pairingMutex = None
  /\ modeMutex = None
  /\ processed = FALSE
  /\ queue = 0
  /\ budget = [modes |-> MaxModes, calls |-> MaxCalls, restarts |-> MaxRestarts]
  /\ rivals = {}
  /\ twice = {}
  /\ late = {}

(* The request is handled; its peers are held until the mutex is free.     *)
Handled(t) == [Idle EXCEPT !.pc = "unlock", !.uses = job[t].uses]
Do(t, new) == job' = [job EXCEPT ![t] = new]
Spend(what) == /\ budget[what] > 0
               /\ budget' = [budget EXCEPT ![what] = @ - 1]
-----------------------------------------------------------------------------
(* onPacketReceived and handlePairingRequest.                              *)

PacketReceived(x) ==
  /\ job[x].pc = "idle"
  /\ \/ /\ byAddress # {}
        /\ Do(x, [Idle EXCEPT !.pc = "use", !.uses = byAddress])
     \/ /\ byAddress = {}
        /\ pairing
        /\ Do(x, [Idle EXCEPT !.pc = "lock"])
  /\ UNCHANGED <<maps, modeVars, pairingMutex, budget, history>>

(* The peers have the packet; they are held while pairing is asked for.    *)
PacketHandled(x) ==
  /\ job[x].pc = "use"
  /\ \/ Do(x, Idle)
     \/ /\ Unpaired
        /\ pairing
        /\ Do(x, [job[x] EXCEPT !.pc = "lock"])
  /\ UNCHANGED <<maps, modeVars, pairingMutex, budget, history>>

(* Faulty variant: nothing is locked.                                      *)
LockNothing(x) ==
  /\ job[x].pc = "lock"
  /\ Do(x, [job[x] EXCEPT !.pc = "request"])
  /\ UNCHANGED <<maps, modeVars, pairingMutex, budget, history>>

LockPairing(x) ==
  /\ job[x].pc = "lock"
  /\ pairingMutex = None
  /\ pairingMutex' = x
  /\ Do(x, [job[x] EXCEPT !.pc = "request"])
  /\ UNCHANGED <<maps, modeVars, budget, history>>

UnlockPairing(x) ==
  /\ job[x].pc = "unlock"
  /\ pairingMutex' = IF pairingMutex = x THEN None ELSE pairingMutex
  /\ Do(x, Idle)
  /\ UNCHANGED <<maps, modeVars, budget, history>>

(* A telegram that is no request, a weak one, or an answer only.           *)
RefuseRequest(x) ==
  /\ job[x].pc = "request"
  /\ Do(x, Handled(x))
  /\ UNCHANGED <<maps, modeVars, pairingMutex, budget, history>>

(* Every kind of teach-in asks for the device before it creates a peer.    *)
TeachIn(x) ==
  /\ job[x].pc = "request"
  /\ teachIn
  /\ byAddress = {}
  /\ Do(x, [job[x] EXCEPT !.pc = "serial", !.kind = "pair", !.seen = {}])
  /\ UNCHANGED <<maps, modeVars, pairingMutex, budget, history>>

(* Every address is tried once in a pairing mode.  The queue is popped by  *)
(* the thread of the pairing mode without this mutex: what is pushed then  *)
(* may be lost.                                                            *)
Enqueue(x) ==
  /\ job[x].pc = "request"
  /\ ~teachIn
  /\ processed' = TRUE
  /\ queue' \in IF byAddress # {} THEN {queue}
                ELSE IF job[Timer].pc = "tick" THEN {queue, queue + 1}
                ELSE {queue + 1}
  /\ Do(x, Handled(x))
  /\ UNCHANGED <<maps, pairing, teachIn, stop, modeMutex, pairingMutex, budget,
                 history>>

(* Faulty variant: the address is not remembered.                          *)
QueueAgain(x) == Enqueue(x)

QueueAddress(x) == ~processed /\ Enqueue(x)
-----------------------------------------------------------------------------
(* Creating a peer: buildPeer and, with kind "create", createDevice, which *)
(* puts it into all maps at once and never finds that it exists already    *)
(* (its arguments are swapped).                                            *)

Creators(t) == {u \in Thread \ {t} : job[u].pc \in Creating}

(* getFreeSerialNumber.                                                    *)
ChooseSerial(t) ==
  /\ job[t].pc = "serial"
  /\ created < MaxPeers
  /\ created' = created + 1
  /\ \E s \in Serial :
       /\ bySerial[s] = None
       /\ \A r \in 0..(s - 1) : bySerial[r] # None
       /\ Do(t, [job[t] EXCEPT !.pc = IF job[t].kind = "create" THEN "save"
                                      ELSE "name",
                               !.serial = s, !.peer = created',
                               !.uses = @ \cup {created'}])
       /\ serial' = [serial EXCEPT ![created'] = s]
       /\ twice' = IF \E u \in Creators(t) :
                        job[u].serial = s /\ job[u].peer # None
                   THEN twice \cup {s} ELSE twice
  /\ UNCHANGED <<bySerial, byId, byAddress, stored, modeVars, pairingMutex,
                 budget, rivals, late>>

(* There is no description, no free channel, or no more peers (bound).     *)
CreateNothing(t) ==
  /\ job[t].pc = "serial"
  /\ Do(t, IF job[t].kind = "pair" THEN Handled(t)
           ELSE [job[t] EXCEPT !.pc = "finish"])
  /\ UNCHANGED <<maps, modeVars, pairingMutex, budget, history>>

NamePeer(t) ==
  /\ job[t].pc = "name"
  /\ bySerial' = [bySerial EXCEPT ![job[t].serial] = job[t].peer]
  /\ Do(t, [job[t] EXCEPT !.pc = "save"])
  /\ UNCHANGED <<byId, byAddress, stored, serial, created, modeVars,
                 pairingMutex, budget, history>>

(* Faulty variant: the peer is inserted before it is saved.                *)
SaveNothing(t) ==
  /\ job[t].pc = "save"
  /\ Do(t, [job[t] EXCEPT !.pc = "insert"])
  /\ UNCHANGED <<maps, modeVars, pairingMutex, budget, history>>

SavePeer(t) ==
  /\ job[t].pc = "save"
  /\ stored' = stored \cup {job[t].peer}
  /\ Do(t, [job[t] EXCEPT !.pc = "insert"])
  /\ UNCHANGED <<bySerial, byId, byAddress, serial, created, modeVars,
                 pairingMutex, budget, history>>

(* Faulty variant: the peer is not found by its address.                   *)
InsertById(t) ==
  LET p == job[t].peer
  IN /\ job[t].pc = "insert"
     /\ byId' = byId \cup {p}
     /\ bySerial' = IF job[t].kind = "create"
                    THEN [bySerial EXCEPT ![job[t].serial] = p] ELSE bySerial
     /\ rivals' = rivals
     /\ Do(t, [job[t] EXCEPT !.pc = "finish"])
     /\ UNCHANGED <<byAddress, stored, serial, created, modeVars, pairingMutex,
                    budget, twice, late>>

InsertPeer(t) ==
  LET p == job[t].peer
      kind == job[t].kind
  IN /\ job[t].pc = "insert"
     /\ byId' = byId \cup {p}
     /\ byAddress' = byAddress \cup {p}
     /\ bySerial' = IF kind = "create"
                    THEN [bySerial EXCEPT ![job[t].serial] = p] ELSE bySerial
     /\ rivals' = IF kind = "create" \/ \E k \in job[t].seen : {k, kind} # {"pair"}
                  THEN rivals \cup {p} ELSE rivals
     /\ job' = [u \in Thread |->
          IF u = t THEN [job[t] EXCEPT !.pc = "finish"]
          ELSE IF job[u].pc \in Creating \cup {"session"}
          THEN [job[u] EXCEPT !.seen = @ \cup {kind}]
          ELSE job[u]]
     /\ UNCHANGED <<stored, serial, created, modeVars, pairingMutex, budget,
                    twice, late>>

(* What follows: buildPeer ends pairing, but for one kind of telegram; a   *)
(* peer that cannot be told that it is paired is deleted again.            *)
FinishPeer(t) ==
  LET w == job[t]
  IN /\ w.pc = "finish"
     /\ pairing' \in IF w.kind = "create" \/ w.peer = None THEN {pairing}
                     ELSE IF w.kind = "pair" THEN {pairing, FALSE} ELSE {FALSE}
     /\ \/ /\ w.kind = "pair"
           /\ \/ Do(t, Handled(t))
              \/ /\ w.peer \in byId
                 /\ Do(t, [Idle EXCEPT !.pc = "unlist", !.peer = w.peer,
                                       !.uses = w.uses])
        \/ /\ w.kind # "pair"
           /\ Do(t, [Idle EXCEPT !.pc = IF t = Timer THEN "tick" ELSE "idle",
                                 !.ticks = w.ticks])
     /\ twice' = IF w.kind = "pair" /\ job'[t].pc = "unlist"
                    /\ \E u \in Thread \ {t} : /\ job[u].pc \in Deleting
                                               /\ job[u].peer = w.peer
                 THEN twice \cup {serial[w.peer]} ELSE twice
     /\ UNCHANGED <<maps, teachIn, stop, modeMutex, processed, queue,
                    pairingMutex, budget, rivals, late>>

CreateDevice(r) ==
  /\ job[r].pc = "idle"
  /\ Spend("calls")
  /\ Do(r, [Idle EXCEPT !.pc = "serial", !.kind = "create"])
  /\ UNCHANGED <<maps, modeVars, pairingMutex, history>>
-----------------------------------------------------------------------------
(* deletePeer: a call, or the end of a pairing.                            *)

BeginDeletion(r, p) ==
  /\ p \in byId
  /\ Do(r, [Idle EXCEPT !.pc = "unlist", !.peer = p, !.uses = {p}])
  /\ twice' = IF \E u \in Thread : job[u].pc \in Deleting /\ job[u].peer = p
              THEN twice \cup {serial[p]} ELSE twice

DeletePeer(r) ==
  /\ job[r].pc = "idle"
  /\ Spend("calls")
  /\ \E p \in Peer : BeginDeletion(r, p)
  /\ UNCHANGED <<maps, modeVars, pairingMutex, rivals, late>>

(* A call that gives a serial number holds the peer while it takes the id, *)
(* by which the peer is then looked for again.  A peer that buildPeer has  *)
(* named already may have none yet.                                        *)
LookUpSerial(r) ==
  /\ job[r].pc = "idle"
  /\ Spend("calls")
  /\ \E s \in Serial :
       /\ bySerial[s] # None
       /\ Do(r, [Idle EXCEPT !.pc = "lookup", !.uses = {bySerial[s]}])
  /\ UNCHANGED <<maps, modeVars, pairingMutex, history>>

DeleteFound(r) ==
  /\ job[r].pc = "lookup"
  /\ \/ \E p \in job[r].uses : BeginDeletion(r, p)
     \/ /\ job[r].uses \cap byId = {}
        /\ Do(r, Idle)
        /\ UNCHANGED twice
  /\ UNCHANGED <<maps, modeVars, pairingMutex, budget, rivals, late>>

(* The entry of the serial number is erased whatever it is.                *)
Unlist(t) ==
  LET p == job[t].peer
  IN /\ job[t].pc = "unlist"
     /\ bySerial' = [bySerial EXCEPT ![serial[p]] = None]
     /\ byId' = byId \ {p}
     /\ byAddress' = byAddress \ {p}
     /\ Do(t, [job[t] EXCEPT !.pc = "wait"])
     /\ UNCHANGED <<stored, serial, created, modeVars, pairingMutex, budget,
                    history>>

(* Faulty variant: others are not waited for.                              *)
WaitForNobody(t) ==
  /\ job[t].pc = "wait"
  /\ Do(t, [job[t] EXCEPT !.pc = "purge"])
  /\ UNCHANGED <<maps, modeVars, pairingMutex, budget, history>>

WaitForOthers(t) ==
  /\ job[t].pc = "wait"
  /\ Holders(job[t].peer) = {t}
  /\ Do(t, [job[t] EXCEPT !.pc = "purge"])
  /\ UNCHANGED <<maps, modeVars, pairingMutex, budget, history>>

(* Faulty variant: others are waited for without end.                      *)
NeverGiveUp(t) == FALSE /\ UNCHANGED vars

(* A minute passed.                                                        *)
GiveUp(t) ==
  /\ job[t].pc = "wait"
  /\ Holders(job[t].peer) # {t}
  /\ late' = late \cup {job[t].peer}
  /\ Do(t, [job[t] EXCEPT !.pc = "purge"])
  /\ UNCHANGED <<maps, modeVars, pairingMutex, budget, rivals, twice>>

Purge(t) ==
  /\ job[t].pc = "purge"
  /\ stored' = stored \ {job[t].peer}
  /\ Do(t, IF t \in Receiver THEN [Idle EXCEPT !.pc = "unlock"] ELSE Idle)
  /\ UNCHANGED <<bySerial, byId, byAddress, serial, created, modeVars,
                 pairingMutex, budget, history>>
-----------------------------------------------------------------------------
(* setInstallMode, and createDevice with the code of a device that sleeps: *)
(* the thread of the pairing mode is stopped, and started anew.            *)

SetInstallMode(r) ==
  /\ job[r].pc = "idle"
  /\ Spend("modes")
  /\ modeMutex = None
  /\ modeMutex' = r
  /\ stop' = TRUE
  /\ Do(r, [Idle EXCEPT !.pc = "join"])
  /\ UNCHANGED <<maps, pairing, teachIn, processed, queue, pairingMutex, history>>

StartTimer(r) ==
  /\ job[r].pc = "join"
  /\ job[Timer].pc = "idle"
  /\ modeMutex' = None
  /\ stop' = FALSE
  /\ processed' = FALSE
  /\ teachIn' \in BOOLEAN
  /\ \/ /\ job' = [job EXCEPT ![r] = Idle, ![Timer].pc = "tick",
                              ![Timer].ticks = MaxTicks]
        /\ pairing' = TRUE
     \/ /\ Do(r, Idle)
        /\ UNCHANGED pairing
  /\ UNCHANGED <<maps, queue, pairingMutex, budget, history>>

EndMode ==
  /\ job[Timer].pc = "tick"
  /\ job[Timer].ticks = 0 \/ stop
  /\ Do(Timer, Idle)
  /\ pairing' = FALSE
  /\ UNCHANGED <<maps, teachIn, stop, modeMutex, processed, queue, pairingMutex,
                 budget, history>>

(* handleRemoteCommissioningQueue: an address of the queue, or, with       *)
(* remote commissioning, the one that was given, once.                     *)
HandleQueue ==
  LET w == job[Timer]
      start == [w EXCEPT !.pc = "check", !.kind = "commission", !.ticks = @ - 1]
  IN /\ w.pc = "tick"
     /\ w.ticks > 0
     /\ ~stop
     /\ \/ /\ queue = 0
           /\ Do(Timer, [w EXCEPT !.ticks = @ - 1])
           /\ UNCHANGED <<queue, stop>>
        \/ /\ queue > 0
           /\ queue' = queue - 1
           /\ Do(Timer, start)
           /\ UNCHANGED stop
        \/ /\ queue = 0
           /\ ~teachIn
           /\ stop' = TRUE
           /\ Do(Timer, start)
           /\ UNCHANGED queue
     /\ UNCHANGED <<maps, pairing, teachIn, modeMutex, processed, pairingMutex,
                    budget, history>>

(* A call with the code of a device that is awake.                         *)
CommissionByCode(r) ==
  /\ job[r].pc = "idle"
  /\ Spend("calls")
  /\ Do(r, [Idle EXCEPT !.pc = "check", !.kind = "commission"])
  /\ UNCHANGED <<maps, modeVars, pairingMutex, history>>

(* remoteCommissionPeer: the device must be unknown; the session succeeds  *)
(* or fails.                                                               *)
CheckDevice(t) ==
  /\ job[t].pc = "check"
  /\ Do(t, IF byAddress = {} THEN [job[t] EXCEPT !.pc = "session", !.seen = {}]
           ELSE [job[t] EXCEPT !.pc = "finish"])
  /\ UNCHANGED <<maps, modeVars, pairingMutex, budget, history>>

Session(t) ==
  /\ job[t].pc = "session"
  /\ \/ Do(t, [job[t] EXCEPT !.pc = "serial"])
     \/ Do(t, [job[t] EXCEPT !.pc = "finish"])
  /\ UNCHANGED <<maps, modeVars, pairingMutex, budget, history>>
-----------------------------------------------------------------------------
(* The process ends and starts again: loadPeers.                           *)
Restart ==
  /\ Spend("restarts")
  /\ byId' = stored
  /\ byAddress' = stored
  /\ bySerial' \in {f \in [Serial -> stored \cup {None}] :
       \A s \in Serial : LET named == {p \in stored : serial[p] = s}
                         IN IF named = {} THEN f[s] = None ELSE f[s] \in named}
  /\ job' = [t \in Thread |-> Idle]
  /\ pairing' = FALSE
  /\ teachIn' = TRUE
  /\ stop' = FALSE
  /\ pairingMutex' = None
  /\ modeMutex' = None
  /\ processed' = FALSE
  /\ queue' = 0
  /\ rivals' = rivals \cup {job[t].peer : t \in {u \in Thread : job[u].peer # None}}
  /\ twice' = twice \cup {s \in Serial :
                 \E p, q \in stored : p # q /\ serial[p] = s /\ serial[q] = s}
  /\ UNCHANGED <<stored, serial, created, late>>

Step(t) ==
  \/ ChooseSerial(t) \/ CreateNothing(t) \/ NamePeer(t) \/ SavePeer(t)
  \/ InsertPeer(t) \/ FinishPeer(t)
  \/ Unlist(t) \/ WaitForOthers(t) \/ GiveUp(t) \/ Purge(t)
  \/ CheckDevice(t) \/ Session(t)
  \/ t \in Receiver /\ (PacketHandled(t) \/ LockPairing(t) \/ UnlockPairing(t)
                          \/ RefuseRequest(t) \/ TeachIn(t) \/ QueueAddress(t))
  \/ t \in Rpc /\ (StartTimer(t) \/ DeleteFound(t))
  \/ t = Timer /\ (EndMode \/ HandleQueue)

Next ==
  \/ \E x \in Receiver : PacketReceived(x)
  \/ \E r \in Rpc : \/ CreateDevice(r) \/ DeletePeer(r) \/ SetInstallMode(r)
                    \/ LookUpSerial(r) \/ CommissionByCode(r)
  \/ \E t \in Thread : Step(t)
  \/ Restart

(* Every thread goes on.                                                   *)
Fairness == \A t \in Thread : WF_vars(Step(t))

Spec == Init /\ [][Next]_vars /\ Fairness
-----------------------------------------------------------------------------
(* The maps agree: a peer that is found by its id is found by its address  *)
(* and its serial number, and is in the database; what else is in the      *)
(* database or has a serial number is being created or deleted.  Found by  *)
(* a serial number is not promised of one that two threads took or erased  *)
(* at a time: nothing keeps createDevice, commissioning and pairing apart, *)
(* a second deletion erases the entry of a new peer with the same number,  *)
(* and a deletion that waits when the process ends leaves its peer in the  *)
(* database, perhaps beside a new one.                                     *)
MapsAgree ==
  /\ byAddress = byId
  /\ byId \subseteq stored
  /\ \A p \in byId : serial[p] \notin twice => bySerial[serial[p]] = p
  /\ \A p \in stored \ byId : \E t \in Thread : job[t].peer = p
  /\ \A s \in Serial : bySerial[s] # None =>
       \/ bySerial[s] \in byId
       \/ \E t \in Thread : job[t].peer = bySerial[s]

(* Teach-in telegrams, also when several interfaces deliver them, make one *)
(* peer of a device.                                                       *)
PairedOnce ==
  \A p, q \in byAddress \ rivals : p = q

(* A peer somebody works with is in the database, unless its deletion was  *)
(* tired of waiting: what is saved for it has a peer to belong to.  It may *)
(* not be yet when it is found by its serial number, which buildPeer puts  *)
(* into the map before it saves the peer.                                  *)
InUseIsStored ==
  \A t \in Thread : \A p \in job[t].uses \ late :
    \/ p \in stored
    \/ job[t].peer = p
    \/ \E u \in Thread : job[u].peer = p /\ job[u].pc = "save"

(* A deletion ends, with everything its thread does, although it waits for *)
(* the others that hold the peer, which may be deletions of the same peer  *)
(* that wait for this one.                                                 *)
DeletionsEnd ==
  \A t \in Receiver \cup Rpc : job[t].pc \in Deleting ~> job[t].pc = "idle"

(* Seen from outside, every peer goes through the life of PeerLife, in any *)
(* number of creations, deletions, also several of one peer, and restarts. *)
AtPlace(p, places) ==
  \E t \in Thread : job[t].peer = p /\ job[t].pc \in places

LifeOf(p) ==
  IF p > created THEN "new"
  ELSE IF p \in byId THEN "known"
  ELSE IF p \in stored
       THEN IF AtPlace(p, {"insert"}) THEN "saved" ELSE "leaving"
  ELSE IF AtPlace(p, {"name", "save"}) THEN "draft"
  ELSE "gone"

Lives == [p \in Peer |-> LifeOf(p)]

Life == INSTANCE PeerLife WITH life <- Lives

ImplementsPeerLife == Life!LifeSpec
=============================================================================
