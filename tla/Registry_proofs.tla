---------------------------- MODULE Registry_proofs ----------------------------
(***************************************************************************)
(* Proofs about the registry of peers, for any number of receiving         *)
(* threads, calls, peers, pairing modes and restarts: the types and the    *)
(* bound of the queue, that the maps and the database agree, that a device *)
(* is paired once, that a peer in use is in the database, and that the     *)
(* registry implements PeerLife.                                           *)
(***************************************************************************)
EXTENDS Registry, TLAPS

(* A creation owns its peer from the choice of the serial number until the *)
(* peer is inserted.                                                       *)
Owning == {"name", "save", "insert"}
Known == 1..created

Job ==
  [pc : Creating \cup Deleting \cup
          {"idle", "use", "lock", "request", "unlock", "check", "session",
           "join", "tick", "lookup"},
   kind : {"none", "pair", "commission", "create"}, peer : Peer \cup {None},
   serial : Serial, seen : SUBSET {"none", "pair", "commission", "create"},
   uses : SUBSET Peer, ticks : 0..MaxTicks]

TypeInv == TypeOK /\ job \in [Thread -> Job]

(* What a thread has where it is; no peer is numbered that was not created. *)
JobInv ==
  \A t \in Thread :
    LET w == job[t]
    IN /\ w.pc \in Owning \cup Deleting => w.peer \in Known
       /\ w.pc \notin Creating \cup Deleting => w.peer = None
       /\ w.pc = "serial" => w.peer = None
       /\ w.pc = "finish" => w.peer \in Known \cup {None}
       /\ w.pc \in Owning => w.serial = serial[w.peer]
       /\ w.uses \subseteq Known

KnownInv ==
  /\ byId \subseteq Known
  /\ stored \subseteq Known
  /\ \A s \in Serial : bySerial[s] \in Known \cup {None}

(* Every address is queued once in a pairing mode, and every mode is one   *)
(* of the bound.                                                           *)
Pending ==
  (IF modeMutex # None THEN 1 ELSE 0) + (IF ~teachIn /\ ~processed THEN 1 ELSE 0)

ModeInv ==
  /\ budget \in [modes : Nat, calls : Nat, restarts : Nat]
  /\ queue \in Nat
  /\ queue + budget.modes + Pending <= MaxModes
  /\ \A t \in Thread : job[t].pc = "join" => modeMutex = t

(* A request to be paired is handled with the mutex; whoever is about to   *)
(* create a peer knows whether another was inserted since the device was   *)
(* looked for.                                                             *)
Before == {"session", "serial", "name", "save", "insert"}

Pairing(t) ==
  LET w == job[t]
  IN /\ w.pc = "request" \/ (w.pc \in Creating /\ w.kind = "pair")
           => pairingMutex = t
     /\ w.pc \in Creating => w.kind \in {"pair", "commission", "create"}
     /\ w.pc \in {"check", "session"} => w.kind = "commission"
     /\ w.pc \in Before /\ w.kind # "create" /\ w.seen = {} => byAddress = {}
     /\ w.pc \in Before /\ w.kind = "pair" => "pair" \notin w.seen

PairingInv == \A t \in Thread : Pairing(t)

(* Nobody else has the peer of a creation, and its serial number is its    *)
(* own unless another creation chose it at the same time.                  *)
Owner(t) ==
  LET w == job[t]
      s == w.serial
  IN /\ w.peer \notin byId
     /\ \A u \in Thread \ {t} : job[u].peer # w.peer
     /\ w.pc = "insert" => w.peer \in stored
     /\ s \notin twice =>
          /\ \A p \in byId : serial[p] # s
          /\ \A u \in Thread \ {t} : job[u].pc \in Owning => job[u].serial # s
          /\ w.kind # "create" /\ w.pc # "name" => bySerial[s] = w.peer

OwnerInv == \A t \in Thread : job[t].pc \in Owning => Owner(t)

(* The peer of a deletion is out of the maps once it was taken out, and    *)
(* nobody works with it when it is purged, or somebody did too long.       *)
Deletion(t) ==
  LET p == job[t].peer
  IN /\ job[t].pc = "unlist" => p \in byId \/ serial[p] \in twice
     /\ job[t].pc # "unlist" => p \notin byId
     /\ job[t].pc = "purge" => p \in late \/ Holders(p) \subseteq {t}
     /\ \A u \in Thread \ {t} :
          job[u].pc \in Deleting /\ job[u].peer = p => serial[p] \in twice

DeletionInv == \A t \in Thread : job[t].pc \in Deleting => Deletion(t)

MapsInv ==
  /\ byAddress = byId
  /\ byId \subseteq stored
  /\ \A p \in byId : serial[p] \notin twice => bySerial[serial[p]] = p
  /\ \A p \in stored \ byId : \E t \in Thread :
       job[t].peer = p /\ job[t].pc \in {"insert", "wait", "purge"}
  /\ \A s \in Serial : bySerial[s] # None =>
       /\ serial[bySerial[s]] = s
       /\ \/ bySerial[s] \in byId
          \/ \E t \in Thread :
               job[t].peer = bySerial[s] /\ job[t].pc \in {"save", "insert"}

(* A peer in use is in the database, or not yet.                           *)
Draft(p) == \E u \in Thread : job[u].peer = p /\ job[u].pc = "save"

UseInv ==
  \A t \in Thread : \A p \in job[t].uses \ late :
    \/ p \in stored
    \/ job[t].peer = p /\ job[t].pc \in {"name", "save"}
    \/ Draft(p)

IInv ==
  /\ TypeInv /\ JobInv /\ KnownInv /\ ModeInv /\ PairingInv /\ OwnerInv
  /\ DeletionInv /\ MapsInv /\ PairedOnce /\ UseInv
-----------------------------------------------------------------------------
LEMMA Numbers ==
  /\ {MaxPeers, MaxModes, MaxTicks, MaxCalls, MaxRestarts} \subseteq Nat
  /\ None \notin Peer /\ None \notin Thread /\ 0 \in Serial
  /\ Receiver \subseteq Thread /\ Rpc \subseteq Thread /\ Timer \in Thread
  /\ Receiver \cap Rpc = {} /\ Timer \notin Receiver \cup Rpc
  BY RegistryAssumption DEF Thread, Peer, Serial

LEMMA KnownPeers ==
  ASSUME TypeInv
  PROVE  Known \subseteq Peer /\ created \in 0..MaxPeers
  BY Numbers DEF TypeInv, TypeOK, Known, Peer

LEMMA IdleIsJob == Idle \in Job
  BY Numbers, SMT DEF Idle, Job, Serial

LEMMA DoJob ==
  ASSUME TypeInv, NEW t \in Thread, NEW new, Do(t, new)
  PROVE  /\ job'[t] = new
         /\ \A u \in Thread \ {t} : job'[u] = job[u]
         /\ new \in Job => job' \in [Thread -> Job]
  BY DEF TypeInv, Do

(* A thread that neither creates nor deletes goes on.                      *)
Aside(u) ==
  \/ job'[u] = job[u]
  \/ /\ {job[u].pc, job'[u].pc} \cap (Owning \cup Deleting) = {}
     /\ job'[u].peer = None
     /\ \/ job'[u].uses \subseteq job[u].uses \cup byAddress
        \/ \E s \in Serial : bySerial[s] # None /\ job'[u].uses = {bySerial[s]}
     /\ job'[u].pc = "join" => modeMutex' = u

Quiet ==
  /\ UNCHANGED <<bySerial, byId, byAddress, stored, serial, created>>
  /\ UNCHANGED <<rivals, twice, late>>
  /\ \A u \in Thread : Aside(u)

(* A deletion begins.                                                      *)
Delete(t, p) ==
  LET new == job'[t]
  IN /\ p \in byId
     /\ job[t].pc \notin Owning \cup Deleting
     /\ new.pc = "unlist" /\ new.peer = p /\ new.uses \subseteq job[t].uses \cup {p}
     /\ \A u \in Thread \ {t} : job'[u] = job[u]
     /\ twice' = IF \E u \in Thread \ {t} : /\ job[u].pc \in Deleting
                                            /\ job[u].peer = p
                 THEN twice \cup {serial[p]} ELSE twice
     /\ UNCHANGED <<bySerial, byId, byAddress, stored, serial, created>>
     /\ UNCHANGED <<rivals, late>>

Loud(t) ==
  \/ ChooseSerial(t) \/ NamePeer(t) \/ SavePeer(t) \/ InsertPeer(t)
  \/ \E p \in Peer : Delete(t, p)
  \/ Unlist(t) \/ WaitForOthers(t) \/ GiveUp(t) \/ Purge(t)

LEMMA QuietReceiver ==
  ASSUME TypeInv, JobInv, NEW x \in Receiver,
         \/ PacketReceived(x) \/ PacketHandled(x) \/ LockPairing(x)
         \/ UnlockPairing(x) \/ RefuseRequest(x) \/ TeachIn(x) \/ QueueAddress(x)
  PROVE  Quiet /\ job' \in [Thread -> Job]
<1> USE Numbers, KnownPeers DEF maps, history, Owning, Creating, Deleting
<1>1. x \in Thread /\ job[x] \in Job
  BY DEF TypeInv
<1>2. ASSUME NEW new \in Job, Do(x, new),
             new.pc \notin Owning \cup Deleting, new.peer = None,
             new.uses \subseteq job[x].uses \cup byAddress, new.pc # "join",
             job[x].pc \notin Owning \cup Deleting
      PROVE  (\A u \in Thread : Aside(u)) /\ job' \in [Thread -> Job]
  BY <1>1, <1>2, DoJob DEF Aside
<1>3. /\ UNCHANGED <<bySerial, byId, byAddress, stored, serial, created>>
      /\ UNCHANGED <<rivals, twice, late>>
  BY DEF PacketReceived, PacketHandled, LockPairing, UnlockPairing,
         RefuseRequest, TeachIn, QueueAddress, Enqueue
<1>4. /\ job[x].pc \in {"idle", "use", "lock", "request", "unlock"}
      /\ job[x].peer = None
      /\ byAddress \subseteq Peer
  BY <1>1 DEF PacketReceived, PacketHandled, LockPairing, UnlockPairing,
         RefuseRequest, TeachIn, QueueAddress, Enqueue, JobInv, TypeInv, TypeOK
<1>5. \E new \in Job :
        /\ Do(x, new) /\ new.pc \notin Owning \cup Deleting /\ new.peer = None
        /\ new.uses \subseteq job[x].uses \cup byAddress /\ new.pc # "join"
  <2>1. CASE PacketReceived(x)
    <3>1. [Idle EXCEPT !.pc = "use", !.uses = byAddress] \in Job
      BY <1>4, IdleIsJob DEF Job
    <3>2. [Idle EXCEPT !.pc = "lock"] \in Job
      BY IdleIsJob DEF Job
    <3> QED
      BY <2>1, <3>1, <3>2 DEF PacketReceived, Idle
  <2>2. CASE PacketHandled(x)
    <3>1. [job[x] EXCEPT !.pc = "lock"] \in Job
      BY <1>1 DEF Job
    <3> QED
      BY <2>2, <1>1, <1>4, <3>1, IdleIsJob DEF PacketHandled, Idle, Job
  <2>3. CASE LockPairing(x)
    <3>1. [job[x] EXCEPT !.pc = "request"] \in Job
      BY <1>1 DEF Job
    <3> QED
      BY <2>3, <1>1, <1>4, <3>1 DEF LockPairing, Job
  <2>4. CASE UnlockPairing(x)
    BY <2>4, IdleIsJob DEF UnlockPairing, Idle
  <2>5. CASE RefuseRequest(x) \/ QueueAddress(x)
    <3>1. Handled(x) \in Job
      BY <1>1, IdleIsJob DEF Handled, Idle, Job
    <3>2. /\ Handled(x).pc = "unlock" /\ Handled(x).peer = None
          /\ Handled(x).uses = job[x].uses
      BY DEF Handled, Idle
    <3> QED
      BY <2>5, <3>1, <3>2 DEF RefuseRequest, QueueAddress, Enqueue
  <2>6. CASE TeachIn(x)
    <3>1. [job[x] EXCEPT !.pc = "serial", !.kind = "pair", !.seen = {}] \in Job
      BY <1>1 DEF Job
    <3> QED
      BY <2>6, <1>1, <1>4, <3>1 DEF TeachIn, Job
  <2> QED
    BY <2>1, <2>2, <2>3, <2>4, <2>5, <2>6
<1> QED
  BY <1>2, <1>3, <1>4, <1>5 DEF Quiet

LEMMA OneAside ==
  ASSUME TypeInv, NEW t \in Thread, NEW new \in Job, Do(t, new),
         new.pc \notin Owning \cup Deleting, new.peer = None,
         new.uses \subseteq job[t].uses \cup byAddress,
         new.pc = "join" => modeMutex' = t,
         job[t].pc \notin Owning \cup Deleting,
         UNCHANGED <<bySerial, byId, byAddress, stored, serial, created>>,
         UNCHANGED <<rivals, twice, late>>
  PROVE  Quiet /\ job' \in [Thread -> Job]
  BY DoJob DEF Aside, Quiet

LEMMA QuietCreation ==
  ASSUME TypeInv, JobInv, NEW t \in Thread,
         CreateNothing(t) \/ CheckDevice(t) \/ Session(t)
  PROVE  Quiet /\ job' \in [Thread -> Job]
<1> USE DEF maps, history, Owning, Creating, Deleting
<1>1. job[t] \in Job /\ job[t].pc \in {"serial", "check", "session"}
  BY DEF TypeInv, CreateNothing, CheckDevice, Session
<1>2. job[t].peer = None
  BY <1>1 DEF JobInv
<1>3. /\ UNCHANGED <<bySerial, byId, byAddress, stored, serial, created>>
      /\ UNCHANGED <<rivals, twice, late>>
  BY DEF CreateNothing, CheckDevice, Session
<1>4. \E new \in Job :
        /\ Do(t, new) /\ new.pc \notin Owning \cup Deleting /\ new.peer = None
        /\ new.uses \subseteq job[t].uses /\ new.pc # "join"
  <2>1. /\ Handled(t) \in Job
        /\ Handled(t).pc = "unlock" /\ Handled(t).peer = None
        /\ Handled(t).uses = job[t].uses
    BY <1>1, IdleIsJob DEF Handled, Idle, Job
  <2>2. /\ [job[t] EXCEPT !.pc = "finish"] \in Job
        /\ [job[t] EXCEPT !.pc = "session", !.seen = {}] \in Job
        /\ [job[t] EXCEPT !.pc = "serial"] \in Job
    BY <1>1 DEF Job
  <2>3. CASE CreateNothing(t)
    BY <1>1, <1>2, <2>1, <2>2, <2>3 DEF CreateNothing, Job
  <2>4. CASE CheckDevice(t)
    <3>1. \/ Do(t, [job[t] EXCEPT !.pc = "session", !.seen = {}])
          \/ Do(t, [job[t] EXCEPT !.pc = "finish"])
      BY <2>4 DEF CheckDevice
    <3>2. /\ [job[t] EXCEPT !.pc = "session", !.seen = {}].pc = "session"
          /\ [job[t] EXCEPT !.pc = "session", !.seen = {}].peer = None
          /\ [job[t] EXCEPT !.pc = "session", !.seen = {}].uses = job[t].uses
      BY <1>1, <1>2 DEF Job
    <3>3. /\ [job[t] EXCEPT !.pc = "finish"].pc = "finish"
          /\ [job[t] EXCEPT !.pc = "finish"].peer = None
          /\ [job[t] EXCEPT !.pc = "finish"].uses = job[t].uses
      BY <1>1, <1>2 DEF Job
    <3> QED
      BY <2>2, <3>1, <3>2, <3>3
  <2>5. CASE Session(t)
    BY <1>1, <1>2, <2>2, <2>5 DEF Session, Job
  <2> QED
    BY <2>3, <2>4, <2>5
<1> QED
  BY <1>1, <1>3, <1>4, OneAside

LEMMA QuietMode ==
  ASSUME TypeInv, JobInv, NEW r \in Rpc,
         \/ CreateDevice(r) \/ SetInstallMode(r) \/ CommissionByCode(r)
         \/ StartTimer(r)
  PROVE  Quiet /\ job' \in [Thread -> Job]
<1> USE Numbers DEF maps, history, Owning, Creating, Deleting
<1>1. /\ r \in Thread /\ job[r] \in Job
      /\ Timer \in Thread /\ job[Timer] \in Job /\ Timer # r
  BY DEF TypeInv
<1>2. CASE CreateDevice(r) \/ SetInstallMode(r) \/ CommissionByCode(r)
  <2>1. /\ [Idle EXCEPT !.pc = "serial", !.kind = "create"] \in Job
        /\ [Idle EXCEPT !.pc = "join"] \in Job
        /\ [Idle EXCEPT !.pc = "check", !.kind = "commission"] \in Job
    BY IdleIsJob DEF Job
  <2>2. \E new \in Job :
          /\ Do(r, new) /\ new.pc \notin Owning \cup Deleting
          /\ new.peer = None /\ new.uses = {}
          /\ new.pc = "join" => modeMutex' = r
    BY <1>2, <2>1 DEF CreateDevice, SetInstallMode, CommissionByCode, Idle
  <2> QED
    BY <1>1, <1>2, <2>2, OneAside
       DEF CreateDevice, SetInstallMode, CommissionByCode
<1>3. CASE StartTimer(r)
  <2>1. CASE Do(r, Idle)
    BY <1>1, <1>3, <2>1, OneAside, IdleIsJob DEF StartTimer, Idle
  <2>2. CASE job' = [job EXCEPT ![r] = Idle, ![Timer].pc = "tick",
                                ![Timer].ticks = MaxTicks]
    <3>1. /\ job'[r] = Idle
          /\ job'[Timer] = [job[Timer] EXCEPT !.pc = "tick", !.ticks = MaxTicks]
          /\ \A u \in Thread \ {r, Timer} : job'[u] = job[u]
      BY <1>1, <2>2 DEF TypeInv
    <3>2. [job[Timer] EXCEPT !.pc = "tick", !.ticks = MaxTicks] \in Job
      <4>1. MaxTicks \in 0..MaxTicks
        BY RegistryAssumption
      <4> QED
        BY <1>1, <4>1 DEF Job
    <3>3. job' \in [Thread -> Job]
      BY <1>1, <2>2, <3>1, <3>2, IdleIsJob DEF TypeInv
    <3>4. job[Timer].pc = "idle" /\ job[Timer].peer = None /\ job[r].pc = "join"
      BY <1>1, <1>3 DEF StartTimer, JobInv
    <3>5. Aside(Timer)
      BY <1>1, <3>1, <3>4 DEF Aside, Job
    <3>6. Aside(r)
      BY <3>1, <3>4 DEF Aside, Idle
    <3>7. \A u \in Thread \ {r, Timer} : Aside(u)
      BY <3>1 DEF Aside
    <3>8. \A u \in Thread : Aside(u)
      BY <3>5, <3>6, <3>7
    <3> QED
      BY <1>3, <3>3, <3>8 DEF StartTimer, Quiet
  <2> QED
    BY <1>3, <2>1, <2>2 DEF StartTimer
<1> QED
  BY <1>2, <1>3

LEMMA QuietTimer ==
  ASSUME TypeInv, JobInv, EndMode \/ HandleQueue
  PROVE  Quiet /\ job' \in [Thread -> Job]
<1> USE Numbers DEF maps, history, Owning, Creating, Deleting
<1>0. Timer \in Thread /\ job[Timer] \in Job
  BY DEF TypeInv
<1> DEFINE w == job[Timer]
<1>1. w.pc = "tick" /\ w.peer = None
  BY <1>0 DEF EndMode, HandleQueue, JobInv
<1>2. w.ticks > 0 =>
        /\ [w EXCEPT !.ticks = @ - 1] \in Job
        /\ [w EXCEPT !.pc = "check", !.kind = "commission", !.ticks = @ - 1] \in Job
  <2>1. MaxTicks \in Nat /\ w.ticks \in 0..MaxTicks
    BY <1>0 DEF Job
  <2>2. w.ticks > 0 => w.ticks - 1 \in 0..MaxTicks
    BY <2>1
  <2> QED
    BY <1>0, <2>2 DEF Job
<1>3. \E new \in Job :
        /\ Do(Timer, new) /\ new.pc \notin Owning \cup Deleting
        /\ new.peer = None /\ new.uses \subseteq w.uses /\ new.pc # "join"
  <2>1. CASE EndMode
    BY <2>1, IdleIsJob DEF EndMode, Idle
  <2>2. CASE HandleQueue
    BY <1>0, <1>1, <1>2, <2>2 DEF HandleQueue, Job
  <2> QED
    BY <2>1, <2>2
<1> QED
  BY <1>0, <1>1, <1>3, OneAside DEF EndMode, HandleQueue

LEMMA FinishStep ==
  ASSUME TypeInv, JobInv, NEW t \in Thread, FinishPeer(t)
  PROVE  /\ Quiet \/ \E p \in Peer : Delete(t, p)
         /\ job' \in [Thread -> Job]
<1> USE DEF maps, Owning, Creating, Deleting
<1> DEFINE w == job[t]
<1>1. /\ w \in Job /\ w.pc = "finish"
      /\ UNCHANGED <<bySerial, byId, byAddress, stored, serial, created>>
      /\ UNCHANGED <<rivals, late>>
  BY DEF TypeInv, FinishPeer
<1>2. CASE w.kind = "pair" /\ Do(t, Handled(t))
  <2>1. /\ Handled(t) \in Job
        /\ Handled(t).pc = "unlock" /\ Handled(t).peer = None
        /\ Handled(t).uses = w.uses
    BY <1>1, IdleIsJob DEF Handled, Idle, Job
  <2>2. twice' = twice
    BY <1>2, <2>1, DoJob DEF FinishPeer
  <2> QED
    BY <1>1, <1>2, <2>1, <2>2, OneAside
<1>3. CASE /\ w.kind # "pair"
           /\ Do(t, [Idle EXCEPT !.pc = IF t = Timer THEN "tick" ELSE "idle",
                                 !.ticks = w.ticks])
  <2> DEFINE new == [Idle EXCEPT !.pc = IF t = Timer THEN "tick" ELSE "idle",
                                 !.ticks = w.ticks]
  <2>1. /\ new \in Job
        /\ new.pc \in {"tick", "idle"} /\ new.peer = None /\ new.uses = {}
    BY <1>1, IdleIsJob DEF Idle, Job
  <2>2. twice' = twice
    BY <1>3, <2>1, DoJob DEF FinishPeer
  <2> HIDE DEF new
  <2> QED
    BY <1>1, <1>3, <2>1, <2>2, OneAside DEF new
<1>4. CASE /\ w.kind = "pair" /\ w.peer \in byId
           /\ Do(t, [Idle EXCEPT !.pc = "unlist", !.peer = w.peer, !.uses = w.uses])
  <2> DEFINE new == [Idle EXCEPT !.pc = "unlist", !.peer = w.peer, !.uses = w.uses]
  <2>1. new \in Job /\ new.pc = "unlist" /\ new.peer = w.peer /\ new.uses = w.uses
    BY <1>1, IdleIsJob DEF Idle, Job
  <2>2. job'[t] = new /\ job' \in [Thread -> Job]
    BY <1>4, <2>1, DoJob
  <2>3. \A u \in Thread \ {t} : job'[u] = job[u]
    BY <1>4, DoJob
  <2> HIDE DEF new
  <2>4. w.peer \in Peer
    BY <1>4 DEF TypeInv, TypeOK
  <2>5. Delete(t, w.peer)
    BY <1>1, <1>4, <2>1, <2>2, <2>3 DEF FinishPeer, Delete
  <2> QED
    BY <2>2, <2>4, <2>5
<1> QED
  BY <1>2, <1>3, <1>4 DEF FinishPeer

LEMMA BeginStep ==
  ASSUME TypeInv, NEW r \in Rpc, NEW p \in Peer, BeginDeletion(r, p),
         job[r].pc \in {"idle", "lookup"},
         UNCHANGED <<bySerial, byId, byAddress, stored, serial, created>>,
         UNCHANGED <<rivals, late>>
  PROVE  Delete(r, p) /\ job' \in [Thread -> Job]
<1> USE DEF Owning, Creating, Deleting
<1>1. r \in Thread
  BY Numbers
<1> DEFINE new == [Idle EXCEPT !.pc = "unlist", !.peer = p, !.uses = {p}]
<1>2. new \in Job /\ new.pc = "unlist" /\ new.peer = p /\ new.uses = {p}
  BY IdleIsJob DEF Idle, Job
<1>3. Do(r, new)
  BY DEF BeginDeletion
<1>4. /\ job'[r] = new /\ job' \in [Thread -> Job]
      /\ \A u \in Thread \ {r} : job'[u] = job[u]
  BY <1>1, <1>2, <1>3, DoJob
<1> HIDE DEF new
<1> QED
  BY <1>1, <1>2, <1>4 DEF BeginDeletion, Delete

LEMMA DeleteStep ==
  ASSUME TypeInv, NEW r \in Rpc, DeletePeer(r)
  PROVE  (\E p \in Peer : Delete(r, p)) /\ job' \in [Thread -> Job]
  BY BeginStep DEF DeletePeer, maps

LEMMA QuietLookUp ==
  ASSUME TypeInv, JobInv, NEW r \in Rpc, LookUpSerial(r)
  PROVE  Quiet /\ job' \in [Thread -> Job]
<1> USE Numbers DEF maps, history, Owning, Creating, Deleting
<1>1. PICK s \in Serial :
        /\ bySerial[s] # None
        /\ Do(r, [Idle EXCEPT !.pc = "lookup", !.uses = {bySerial[s]}])
  BY DEF LookUpSerial
<1> DEFINE new == [Idle EXCEPT !.pc = "lookup", !.uses = {bySerial[s]}]
<1>2. bySerial[s] \in Peer
  BY <1>1 DEF TypeInv, TypeOK
<1>3. /\ new \in Job
      /\ new.pc = "lookup" /\ new.peer = None /\ new.uses = {bySerial[s]}
  BY <1>2, IdleIsJob DEF Idle, Job
<1>4. /\ r \in Thread /\ job' \in [Thread -> Job] /\ job'[r] = new
      /\ \A u \in Thread \ {r} : job'[u] = job[u]
  BY <1>1, <1>3, DoJob
<1> HIDE DEF new
<1>5. \A u \in Thread : Aside(u)
  BY <1>1, <1>3, <1>4 DEF LookUpSerial, Aside
<1> QED
  BY <1>4, <1>5 DEF LookUpSerial, Quiet

LEMMA FoundStep ==
  ASSUME TypeInv, JobInv, NEW r \in Rpc, DeleteFound(r)
  PROVE  /\ Quiet \/ \E p \in Peer : Delete(r, p)
         /\ job' \in [Thread -> Job]
<1> USE Numbers DEF maps, Owning, Creating, Deleting
<1>1. /\ r \in Thread /\ job[r] \in Job /\ job[r].pc = "lookup"
      /\ UNCHANGED <<bySerial, byId, byAddress, stored, serial, created>>
      /\ UNCHANGED <<rivals, late>>
  BY DEF TypeInv, DeleteFound
<1>2. CASE \E p \in job[r].uses : BeginDeletion(r, p)
  <2>1. PICK p \in Peer : BeginDeletion(r, p)
    BY <1>1, <1>2 DEF Job
  <2> QED
    BY <1>1, <2>1, BeginStep
<1>3. CASE Do(r, Idle) /\ UNCHANGED twice
  <2>1. /\ Idle.pc = "idle" /\ Idle.peer = None /\ Idle.uses = {}
    BY DEF Idle
  <2> QED
    BY <1>1, <1>3, <2>1, OneAside, IdleIsJob
<1> QED
  BY <1>2, <1>3 DEF DeleteFound
-----------------------------------------------------------------------------
(* What a creation and a deletion do.                                      *)

Alike(u) ==
  /\ job'[u].kind = job[u].kind
  /\ job'[u].peer = job[u].peer
  /\ job'[u].serial = job[u].serial
  /\ job'[u].uses = job[u].uses

OthersAlike(t) ==
  \A u \in Thread \ {t} : job'[u].pc = job[u].pc /\ Alike(u)

OthersSame(t) == \A u \in Thread \ {t} : job'[u] = job[u]

LEMMA SameAlike ==
  ASSUME NEW t, OthersSame(t)
  PROVE  OthersAlike(t)
  BY DEF OthersSame, OthersAlike, Alike

LEMMA PlaceStep ==
  ASSUME TypeInv, NEW t \in Thread, NEW c \in {"save", "insert", "wait", "purge"},
         Do(t, [job[t] EXCEPT !.pc = c])
  PROVE  /\ job' \in [Thread -> Job]
         /\ job'[t].pc = c /\ Alike(t) /\ job'[t].seen = job[t].seen
         /\ OthersSame(t)
<1> DEFINE new == [job[t] EXCEPT !.pc = c]
<1>1. job[t] \in Job
  BY DEF TypeInv
<1>2. /\ new \in Job
      /\ new.pc = c /\ new.kind = job[t].kind /\ new.peer = job[t].peer
      /\ new.serial = job[t].serial /\ new.uses = job[t].uses
      /\ new.seen = job[t].seen
  BY <1>1 DEF Job, Creating, Deleting
<1>3. Do(t, new)
  OBVIOUS
<1> HIDE DEF new
<1> QED
  BY <1>2, <1>3, DoJob DEF Alike, OthersSame

LEMMA ChooseEffect ==
  ASSUME TypeInv, JobInv, NEW t \in Thread, ChooseSerial(t)
  PROVE  \E s \in Serial :
           LET w == job[t]
               new == job'[t]
               p == created + 1
           IN /\ w.pc = "serial" /\ w.peer = None
              /\ bySerial[s] = None
              /\ p \in Peer /\ p \notin Known
              /\ created' = p /\ Known' = Known \cup {p}
              /\ serial' = [serial EXCEPT ![p] = s] /\ serial'[p] = s
              /\ \A q \in Known : serial'[q] = serial[q]
              /\ new.pc = IF w.kind = "create" THEN "save" ELSE "name"
              /\ new.kind = w.kind /\ new.seen = w.seen
              /\ new.serial = s /\ new.peer = p /\ new.uses = w.uses \cup {p}
              /\ job' \in [Thread -> Job] /\ OthersSame(t)
              /\ twice' \in {twice, twice \cup {s}}
              /\ \A u \in Thread \ {t} :
                   job[u].pc \in Owning /\ job[u].serial = s /\ job[u].peer # None
                     => s \in twice'
              /\ UNCHANGED <<bySerial, byId, byAddress, stored, rivals, late>>
<1> DEFINE w == job[t]
           p == created + 1
<1>1. PICK s \in Serial :
        /\ bySerial[s] = None
        /\ Do(t, [w EXCEPT !.pc = IF w.kind = "create" THEN "save" ELSE "name",
                           !.serial = s, !.peer = created',
                           !.uses = @ \cup {created'}])
        /\ serial' = [serial EXCEPT ![created'] = s]
        /\ twice' = IF \E u \in Creators(t) : job[u].serial = s /\ job[u].peer # None
                    THEN twice \cup {s} ELSE twice
  BY DEF ChooseSerial
<1>2. /\ w \in Job /\ w.pc = "serial" /\ w.peer = None
      /\ created' = p /\ created \in 0..MaxPeers /\ created < MaxPeers
      /\ UNCHANGED <<bySerial, byId, byAddress, stored, rivals, late>>
  BY KnownPeers DEF TypeInv, ChooseSerial, JobInv
<1>3. p \in Peer /\ p \notin Known /\ Known' = Known \cup {p}
  BY <1>2, RegistryAssumption DEF Peer, Known
<1>4. /\ serial' = [serial EXCEPT ![p] = s] /\ serial'[p] = s
      /\ \A q \in Known : serial'[q] = serial[q]
  BY <1>1, <1>2, <1>3, KnownPeers DEF TypeInv, TypeOK
<1> DEFINE place == IF w.kind = "create" THEN "save" ELSE "name"
           new == [w EXCEPT !.pc = place, !.serial = s, !.peer = p,
                            !.uses = w.uses \cup {p}]
<1>5. place \in {"save", "name"}
  OBVIOUS
<1>6. Do(t, new)
  BY <1>1, <1>2
<1> HIDE DEF place, p
<1>7. /\ new \in Job
      /\ new.pc = place /\ new.kind = w.kind /\ new.seen = w.seen
      /\ new.serial = s /\ new.peer = p /\ new.uses = w.uses \cup {p}
  BY <1>2, <1>3, <1>5 DEF Job, Creating
<1> HIDE DEF new
<1>8. job'[t] = new /\ job' \in [Thread -> Job] /\ OthersSame(t)
  BY <1>6, <1>7, DoJob DEF OthersSame
<1>9. /\ twice' \in {twice, twice \cup {s}}
      /\ \A u \in Thread \ {t} :
           job[u].pc \in Owning /\ job[u].serial = s /\ job[u].peer # None
             => s \in twice'
  BY <1>1 DEF Creators, Owning, Creating
<1> QED
  BY <1>1, <1>2, <1>3, <1>4, <1>7, <1>8, <1>9 DEF place, p

LEMMA InsertEffect ==
  ASSUME TypeInv, NEW t \in Thread, InsertPeer(t)
  PROVE  /\ job[t].pc = "insert"
         /\ job' \in [Thread -> Job]
         /\ job'[t].pc = "finish" /\ Alike(t)
         /\ OthersAlike(t)
         /\ \A u \in Thread \ {t} : job[u].pc \in Before =>
              job'[u].seen = job[u].seen \cup {job[t].kind}
<1>1. \A u \in Thread : job[u] \in Job
  BY DEF TypeInv
<1>2. /\ job[t].pc = "insert"
      /\ job' = [u \in Thread |->
           IF u = t THEN [job[t] EXCEPT !.pc = "finish"]
           ELSE IF job[u].pc \in Creating \cup {"session"}
           THEN [job[u] EXCEPT !.seen = @ \cup {job[t].kind}]
           ELSE job[u]]
  BY DEF InsertPeer
<1>3. /\ job'[t] = [job[t] EXCEPT !.pc = "finish"]
      /\ job'[t] \in Job /\ job'[t].pc = "finish" /\ Alike(t)
  <2>1. job'[t] = [job[t] EXCEPT !.pc = "finish"]
    BY <1>2
  <2> QED
    BY <1>1, <2>1 DEF Job, Creating, Alike
<1>4. ASSUME NEW u \in Thread \ {t}
      PROVE  /\ job'[u] \in Job
             /\ job'[u].pc = job[u].pc /\ Alike(u)
             /\ job[u].pc \in Before =>
                  job'[u].seen = job[u].seen \cup {job[t].kind}
  <2> DEFINE new == [job[u] EXCEPT !.seen = @ \cup {job[t].kind}]
  <2>1. job'[u] = IF job[u].pc \in Creating \cup {"session"} THEN new ELSE job[u]
    BY <1>2
  <2>2. job[u] \in Job /\ job[t].kind \in {"none", "pair", "commission", "create"}
    BY <1>1 DEF Job
  <2>3. /\ new \in Job /\ new.pc = job[u].pc /\ new.kind = job[u].kind
        /\ new.peer = job[u].peer /\ new.serial = job[u].serial
        /\ new.uses = job[u].uses /\ new.seen = job[u].seen \cup {job[t].kind}
    BY <2>2 DEF Job
  <2> HIDE DEF new
  <2> QED
    BY <2>1, <2>2, <2>3 DEF Alike, Before, Creating
<1>5. job' \in [Thread -> Job]
  BY <1>2, <1>3, <1>4
<1> QED
  BY <1>2, <1>3, <1>4, <1>5 DEF OthersAlike

(* A step of a deletion or of a creation, but for its choice.              *)
LEMMA OtherEffects ==
  ASSUME TypeInv, JobInv, NEW t \in Thread,
         \/ NamePeer(t) \/ SavePeer(t)
         \/ Unlist(t) \/ WaitForOthers(t) \/ GiveUp(t)
  PROVE  /\ job' \in [Thread -> Job] /\ OthersSame(t)
         /\ Alike(t) /\ job'[t].seen = job[t].seen
         /\ NamePeer(t) => job'[t].pc = "save"
         /\ SavePeer(t) => job'[t].pc = "insert"
         /\ Unlist(t) => job'[t].pc = "wait"
         /\ WaitForOthers(t) \/ GiveUp(t) => job'[t].pc = "purge"
<1>1. CASE NamePeer(t)
  BY <1>1, PlaceStep DEF NamePeer, SavePeer, Unlist, WaitForOthers, GiveUp
<1>2. CASE SavePeer(t)
  BY <1>2, PlaceStep DEF NamePeer, SavePeer, Unlist, WaitForOthers, GiveUp
<1>3. CASE Unlist(t)
  BY <1>3, PlaceStep DEF NamePeer, SavePeer, Unlist, WaitForOthers, GiveUp
<1>4. CASE WaitForOthers(t) \/ GiveUp(t)
  BY <1>4, PlaceStep DEF NamePeer, SavePeer, Unlist, WaitForOthers, GiveUp
<1> QED
  BY <1>1, <1>2, <1>3, <1>4

LEMMA PurgeEffect ==
  ASSUME TypeInv, NEW t \in Thread, Purge(t)
  PROVE  /\ job[t].pc = "purge" /\ stored' = stored \ {job[t].peer}
         /\ job' \in [Thread -> Job] /\ OthersSame(t)
         /\ job'[t].pc \in {"idle", "unlock"}
         /\ job'[t].peer = None /\ job'[t].uses = {}
<1> DEFINE new == IF t \in Receiver THEN [Idle EXCEPT !.pc = "unlock"] ELSE Idle
<1>1. /\ new \in Job /\ new.pc \in {"idle", "unlock"}
      /\ new.peer = None /\ new.uses = {}
  BY IdleIsJob DEF Job, Idle
<1>2. Do(t, new) /\ job[t].pc = "purge" /\ stored' = stored \ {job[t].peer}
  BY DEF Purge
<1> HIDE DEF new
<1> QED
  BY <1>1, <1>2, DoJob DEF OthersSame

LEMMA Steps ==
  ASSUME TypeInv, JobInv, [Next]_vars
  PROVE  /\ Quiet \/ (\E t \in Thread : Loud(t)) \/ Restart
         /\ job' \in [Thread -> Job]
<1>1. ASSUME NEW t \in Thread, Step(t)
      PROVE  (Quiet \/ Loud(t)) /\ job' \in [Thread -> Job]
  <2>1. CASE \/ CreateNothing(t) \/ CheckDevice(t) \/ Session(t)
    BY <2>1, QuietCreation
  <2>2. CASE FinishPeer(t)
    BY <2>2, FinishStep DEF Loud
  <2>3. CASE ChooseSerial(t)
    BY <2>3, ChooseEffect DEF Loud
  <2>4. CASE InsertPeer(t)
    BY <2>4, InsertEffect DEF Loud
  <2>5. CASE \/ NamePeer(t) \/ SavePeer(t)
             \/ Unlist(t) \/ WaitForOthers(t) \/ GiveUp(t)
    BY <2>5, OtherEffects DEF Loud
  <2>6. CASE Purge(t)
    BY <2>6, PurgeEffect DEF Loud
  <2>7. CASE t \in Receiver /\ (\/ PacketHandled(t) \/ LockPairing(t)
                               \/ UnlockPairing(t) \/ RefuseRequest(t)
                               \/ TeachIn(t) \/ QueueAddress(t))
    BY <2>7, QuietReceiver
  <2>8. CASE t \in Rpc /\ (StartTimer(t) \/ DeleteFound(t))
    BY <2>8, QuietMode, FoundStep DEF Loud
  <2>9. CASE t = Timer /\ (EndMode \/ HandleQueue)
    BY <2>9, QuietTimer
  <2> QED
    BY <1>1, <2>1, <2>2, <2>3, <2>4, <2>5, <2>6, <2>7, <2>8, <2>9 DEF Step
<1>2. CASE \E x \in Receiver : PacketReceived(x)
  BY <1>2, QuietReceiver
<1>3. ASSUME NEW r \in Rpc,
             \/ CreateDevice(r) \/ DeletePeer(r) \/ SetInstallMode(r)
             \/ LookUpSerial(r) \/ CommissionByCode(r)
      PROVE  (Quiet \/ Loud(r)) /\ r \in Thread /\ job' \in [Thread -> Job]
  BY <1>3, QuietMode, QuietLookUp, DeleteStep, Numbers DEF Loud
<1>4. CASE Restart
  BY <1>4, IdleIsJob DEF Restart
<1>5. CASE UNCHANGED vars
  BY <1>5 DEF vars, maps, history, TypeInv, Quiet, Aside
<1> QED
  BY <1>1, <1>2, <1>3, <1>4, <1>5 DEF Next
-----------------------------------------------------------------------------
(* Types, and what a thread has.                                           *)

LEMMA ModeStep ==
  ASSUME TypeInv, JobInv, ModeInv, [Next]_vars
  PROVE  ModeInv'
<1> USE DEF maps, modeVars, history
<1>1. /\ queue \in Nat /\ queue + budget.modes + Pending <= MaxModes
      /\ budget \in [modes : Nat, calls : Nat, restarts : Nat]
      /\ MaxModes \in Nat /\ None \notin Thread
      /\ {teachIn, processed} \subseteq BOOLEAN
  BY Numbers DEF ModeInv, TypeInv, TypeOK
<1>2. ASSUME \A u \in Thread : job'[u].pc = "join" => modeMutex' = u,
             /\ queue' \in Nat
             /\ budget' \in [modes : Nat, calls : Nat, restarts : Nat]
             /\ queue' + budget'.modes + Pending' <= MaxModes
      PROVE  ModeInv'
  BY <1>2 DEF ModeInv
<1>3. ASSUME UNCHANGED <<teachIn, modeMutex, processed, queue>>,
             budget' \in [modes : Nat, calls : Nat, restarts : Nat],
             budget'.modes = budget.modes
      PROVE  /\ queue' \in Nat
             /\ budget' \in [modes : Nat, calls : Nat, restarts : Nat]
             /\ queue' + budget'.modes + Pending' <= MaxModes
  BY <1>1, <1>3 DEF Pending
<1>4. \A u \in Thread : job'[u].pc = "join" =>
        modeMutex' = u \/ (job[u].pc = "join" /\ modeMutex = u)
  <2>1. CASE Quiet
    BY <2>1 DEF Quiet, Aside, ModeInv
  <2>2. CASE \E t \in Thread : Loud(t)
    <3>1. PICK t \in Thread : Loud(t)
      BY <2>2
    <3>2. job'[t].pc # "join" /\ \A u \in Thread \ {t} : job'[u].pc = job[u].pc
      <4>1. CASE ChooseSerial(t)
        BY <4>1, ChooseEffect DEF OthersSame
      <4>2. CASE InsertPeer(t)
        BY <4>2, InsertEffect DEF OthersAlike
      <4>3. CASE \/ NamePeer(t) \/ SavePeer(t)
                 \/ Unlist(t) \/ WaitForOthers(t) \/ GiveUp(t)
        BY <4>3, OtherEffects DEF OthersSame
      <4>4. CASE Purge(t)
        BY <4>4, PurgeEffect DEF OthersSame
      <4>5. CASE \E p \in Peer : Delete(t, p)
        BY <4>5 DEF Delete
      <4> QED
        BY <3>1, <4>1, <4>2, <4>3, <4>4, <4>5 DEF Loud
    <3> QED
      BY <3>2 DEF ModeInv
  <2>3. CASE Restart
    BY <2>3 DEF Restart, Idle
  <2> QED
    BY <2>1, <2>2, <2>3, Steps
<1>5. ASSUME UNCHANGED modeMutex
      PROVE  \A u \in Thread : job'[u].pc = "join" => modeMutex' = u
  BY <1>4, <1>5
<1>6. ASSUME NEW r \in Rpc, SetInstallMode(r) PROVE ModeInv'
  <2>1. /\ modeMutex = None /\ modeMutex' = r /\ r \in Thread
        /\ budget.modes > 0 /\ budget' = [budget EXCEPT !.modes = @ - 1]
        /\ UNCHANGED <<teachIn, processed, queue>>
    BY <1>6, Numbers DEF SetInstallMode, Spend
  <2>2. /\ budget' \in [modes : Nat, calls : Nat, restarts : Nat]
        /\ budget'.modes = budget.modes - 1
    BY <1>1, <2>1
  <2>3. queue' + budget'.modes + Pending' <= MaxModes
    BY <1>1, <2>1, <2>2 DEF Pending
  <2>4. \A u \in Thread : job[u].pc = "join" => modeMutex # u
    BY <1>1, <2>1
  <2>5. \A u \in Thread : job'[u].pc = "join" => modeMutex' = u
    BY <1>4, <2>4
  <2> QED
    BY <1>1, <1>2, <2>1, <2>2, <2>3, <2>5
<1>7. ASSUME NEW r \in Rpc, StartTimer(r) PROVE ModeInv'
  <2>1. /\ r \in Thread /\ job[r].pc = "join" /\ modeMutex = r /\ modeMutex' = None
        /\ UNCHANGED <<budget, queue>>
    BY <1>7, Numbers DEF StartTimer, ModeInv
  <2>2. queue' + budget'.modes + Pending' <= MaxModes
    <3>1. Pending' \in {0, 1} /\ Pending \in {1, 2}
      BY <1>1, <2>1 DEF Pending
    <3> QED
      BY <1>1, <2>1, <3>1
  <2>3. \A u \in Thread : job'[u].pc # "join"
    <3>1. \A u \in Thread : job'[u].pc = "join" => u = r
      BY <1>1, <1>4, <2>1
    <3>2. job'[r].pc = "idle"
      BY <1>7, <2>1, Numbers DEF StartTimer, Do, TypeInv, Idle
    <3> QED
      BY <3>1, <3>2
  <2> QED
    BY <1>1, <1>2, <2>1, <2>2, <2>3
<1>8. CASE HandleQueue
  <2>1. /\ UNCHANGED <<teachIn, modeMutex, processed, budget>>
        /\ queue' = queue \/ (queue > 0 /\ queue' = queue - 1)
    BY <1>8 DEF HandleQueue
  <2>2. queue' \in Nat /\ queue' + budget'.modes + Pending' <= MaxModes
    <3>1. Pending' = Pending /\ Pending \in {0, 1, 2}
      BY <2>1 DEF Pending
    <3> QED
      BY <1>1, <2>1, <3>1
  <2> QED
    BY <1>1, <1>2, <1>5, <2>1, <2>2
<1>9. ASSUME NEW x \in Receiver, QueueAddress(x) PROVE ModeInv'
  <2>1. /\ ~teachIn /\ ~processed /\ processed'
        /\ UNCHANGED <<teachIn, modeMutex, budget>>
        /\ queue' \in {queue, queue + 1}
    BY <1>9 DEF QueueAddress, Enqueue
  <2>2. Pending' = Pending - 1 /\ Pending \in {1, 2}
    BY <1>1, <2>1 DEF Pending
  <2>3. queue' \in Nat /\ queue' + budget'.modes + Pending' <= MaxModes
    BY <1>1, <2>1, <2>2
  <2> QED
    BY <1>1, <1>2, <1>5, <2>1, <2>3
<1>10. CASE Restart
  <2>1. /\ budget' = [budget EXCEPT !.restarts = @ - 1] /\ budget.restarts > 0
        /\ teachIn' = TRUE /\ modeMutex' = None /\ queue' = 0
        /\ job' = [t \in Thread |-> Idle]
    BY <1>10 DEF Restart, Spend
  <2>2. /\ budget' \in [modes : Nat, calls : Nat, restarts : Nat]
        /\ budget'.modes = budget.modes
    BY <1>1, <2>1
  <2>3. Pending' = 0 /\ Pending \in {0, 1, 2}
    BY <2>1 DEF Pending
  <2>4. queue' \in Nat /\ queue' + budget'.modes + Pending' <= MaxModes
    BY <1>1, <2>1, <2>2, <2>3
  <2>5. \A u \in Thread : job'[u].pc # "join"
    BY <2>1 DEF Idle
  <2> QED
    BY <1>2, <2>2, <2>4, <2>5
<1>11. ASSUME NEW r \in Rpc, \/ CreateDevice(r) \/ DeletePeer(r)
                             \/ LookUpSerial(r) \/ CommissionByCode(r)
       PROVE  ModeInv'
  <2>1. /\ budget' = [budget EXCEPT !.calls = @ - 1] /\ budget.calls > 0
        /\ UNCHANGED <<teachIn, modeMutex, processed, queue>>
    BY <1>11 DEF CreateDevice, DeletePeer, LookUpSerial, CommissionByCode, Spend
  <2>2. /\ budget' \in [modes : Nat, calls : Nat, restarts : Nat]
        /\ budget'.modes = budget.modes
    BY <1>1, <2>1
  <2> QED
    BY <1>2, <1>3, <1>5, <2>1, <2>2
<1>12. CASE UNCHANGED <<teachIn, modeMutex, processed, queue, budget>>
  BY <1>1, <1>2, <1>3, <1>5, <1>12
<1>13. \/ UNCHANGED <<teachIn, modeMutex, processed, queue, budget>>
       \/ HandleQueue \/ Restart
       \/ \E x \in Receiver : QueueAddress(x)
       \/ \E r \in Rpc : \/ SetInstallMode(r) \/ StartTimer(r) \/ CreateDevice(r)
                         \/ DeletePeer(r) \/ LookUpSerial(r) \/ CommissionByCode(r)
  <2>1. ASSUME NEW t \in Thread, Step(t)
        PROVE  \/ UNCHANGED <<teachIn, modeMutex, processed, queue, budget>>
               \/ HandleQueue
               \/ t \in Receiver /\ QueueAddress(t)
               \/ t \in Rpc /\ StartTimer(t)
    <3> DEFINE Same ==
          UNCHANGED <<teachIn, modeMutex, processed, queue, budget>>
    <3>1. ChooseSerial(t) \/ CreateNothing(t) \/ NamePeer(t) \/ SavePeer(t) => Same
      BY DEF ChooseSerial, CreateNothing, NamePeer, SavePeer
    <3>2. InsertPeer(t) \/ CheckDevice(t) \/ Session(t) => Same
      BY DEF InsertPeer, CheckDevice, Session
    <3>3. FinishPeer(t) => Same
      BY DEF FinishPeer
    <3>4. Unlist(t) \/ WaitForOthers(t) \/ GiveUp(t) \/ Purge(t) => Same
      BY DEF Unlist, WaitForOthers, GiveUp, Purge
    <3>5. PacketHandled(t) \/ LockPairing(t) \/ UnlockPairing(t) => Same
      BY DEF PacketHandled, LockPairing, UnlockPairing
    <3>6. RefuseRequest(t) \/ TeachIn(t) \/ EndMode \/ DeleteFound(t) => Same
      BY DEF RefuseRequest, TeachIn, EndMode, DeleteFound
    <3> HIDE DEF Same
    <3>7. \/ Same
          \/ HandleQueue
          \/ t \in Receiver /\ QueueAddress(t)
          \/ t \in Rpc /\ StartTimer(t)
      BY <2>1, <3>1, <3>2, <3>3, <3>4, <3>5, <3>6 DEF Step
    <3> QED
      BY <3>7 DEF Same
  <2>2. ASSUME NEW x \in Receiver, PacketReceived(x)
        PROVE  UNCHANGED <<teachIn, modeMutex, processed, queue, budget>>
    BY <2>2 DEF PacketReceived
  <2>3. ASSUME UNCHANGED vars
        PROVE  UNCHANGED <<teachIn, modeMutex, processed, queue, budget>>
    BY <2>3 DEF vars
  <2> QED
    BY <2>1, <2>2, <2>3 DEF Next
<1> QED
  BY <1>6, <1>7, <1>8, <1>9, <1>10, <1>11, <1>12, <1>13

MapTypes ==
  /\ bySerial \in [Serial -> Peer \cup {None}]
  /\ {byId, byAddress, stored, rivals, late} \subseteq SUBSET Peer
  /\ serial \in [Peer -> Serial]
  /\ created \in 0..MaxPeers
  /\ twice \subseteq Serial

FlagTypes ==
  /\ {pairing, teachIn, stop, processed} \subseteq BOOLEAN
  /\ pairingMutex \in Receiver \cup {None}
  /\ modeMutex \in Rpc \cup {None}

LEMMA MapTypesStep ==
  ASSUME TypeInv, JobInv, [Next]_vars
  PROVE  MapTypes'
<1> USE DEF maps, modeVars, history
<1>1. MapTypes /\ Known \subseteq Peer /\ None \notin Peer
  BY KnownPeers, Numbers DEF TypeInv, TypeOK, MapTypes
<1>2. CASE Quiet
  BY <1>1, <1>2 DEF Quiet, MapTypes
<1>3. CASE Restart
  <2>1. {job[t].peer : t \in {u \in Thread : job[u].peer # None}} \subseteq Peer
    BY DEF TypeInv, Job
  <2>2. /\ byId' = stored /\ byAddress' = stored
        /\ bySerial' \in [Serial -> stored \cup {None}]
        /\ UNCHANGED <<stored, serial, created, late>>
        /\ rivals' \subseteq Peer /\ twice' \subseteq Serial
    BY <1>1, <1>3, <2>1 DEF Restart, MapTypes
  <2> QED
    BY <1>1, <2>2 DEF MapTypes
<1>4. ASSUME NEW t \in Thread, Loud(t) PROVE MapTypes'
  <2>1. job[t] \in Job /\ (job[t].pc \in Owning \cup Deleting => job[t].peer \in Peer)
    BY <1>1 DEF TypeInv, JobInv
  <2>2. job[t].serial \in Serial
    BY <2>1 DEF Job
  <2>3. CASE ChooseSerial(t)
    <3>1. PICK s \in Serial :
            /\ created + 1 \in Peer /\ created' = created + 1
            /\ serial' = [serial EXCEPT ![created + 1] = s]
            /\ twice' \in {twice, twice \cup {s}}
            /\ UNCHANGED <<bySerial, byId, byAddress, stored, rivals, late>>
      BY <2>3, ChooseEffect
    <3>2. created' \in 0..MaxPeers
      BY <3>1, RegistryAssumption DEF Peer
    <3> QED
      BY <1>1, <3>1, <3>2 DEF MapTypes
  <2>4. CASE NamePeer(t)
    BY <1>1, <2>1, <2>2, <2>4 DEF NamePeer, MapTypes, Owning
  <2>5. CASE SavePeer(t)
    BY <1>1, <2>1, <2>5 DEF SavePeer, MapTypes, Owning
  <2>6. CASE InsertPeer(t)
    <3>1. job[t].peer \in Peer
      BY <2>1, <2>6 DEF InsertPeer, Owning
    <3>2. /\ bySerial' \in {bySerial, [bySerial EXCEPT ![job[t].serial] = job[t].peer]}
          /\ byId' = byId \cup {job[t].peer}
          /\ byAddress' = byAddress \cup {job[t].peer}
          /\ rivals' \in {rivals, rivals \cup {job[t].peer}}
          /\ UNCHANGED <<stored, serial, created, twice, late>>
      BY <2>6 DEF InsertPeer
    <3> QED
      BY <1>1, <2>2, <3>1, <3>2 DEF MapTypes
  <2>7. CASE \E p \in Peer : Delete(t, p)
    BY <1>1, <2>7 DEF Delete, MapTypes
  <2>8. CASE Unlist(t)
    BY <1>1, <2>8 DEF Unlist, MapTypes
  <2>9. CASE WaitForOthers(t)
    BY <1>1, <2>9 DEF WaitForOthers, MapTypes
  <2>10. CASE GiveUp(t)
    BY <1>1, <2>1, <2>10 DEF GiveUp, MapTypes, Deleting
  <2>11. CASE Purge(t)
    BY <1>1, <2>11 DEF Purge, MapTypes
  <2> QED
    BY <1>4, <2>3, <2>4, <2>5, <2>6, <2>7, <2>8, <2>9, <2>10, <2>11 DEF Loud
<1> QED
  BY <1>2, <1>3, <1>4, Steps

LEMMA FlagTypesStep ==
  ASSUME TypeInv, [Next]_vars
  PROVE  FlagTypes'
<1> USE DEF maps, modeVars, history
<1>1. FlagTypes
  BY DEF TypeInv, TypeOK, FlagTypes
<1>2. ASSUME NEW t \in Thread, Step(t) PROVE FlagTypes'
  <2>1. CASE UNCHANGED <<pairing, teachIn, stop, processed, pairingMutex, modeMutex>>
    BY <1>1, <2>1 DEF FlagTypes
  <2>2. CASE FinishPeer(t)
    BY <1>1, <2>2 DEF FinishPeer, FlagTypes
  <2>3. CASE t \in Receiver /\ (LockPairing(t) \/ UnlockPairing(t))
    BY <1>1, <2>3 DEF LockPairing, UnlockPairing, FlagTypes
  <2>4. CASE QueueAddress(t)
    BY <1>1, <2>4 DEF QueueAddress, Enqueue, FlagTypes
  <2>5. CASE StartTimer(t)
    BY <1>1, <2>5 DEF StartTimer, FlagTypes
  <2>6. CASE EndMode
    BY <1>1, <2>6 DEF EndMode, FlagTypes
  <2>7. CASE HandleQueue
    BY <1>1, <2>7 DEF HandleQueue, FlagTypes
  <2>8. \/ UNCHANGED <<pairing, teachIn, stop, processed, pairingMutex, modeMutex>>
        \/ FinishPeer(t)
        \/ t \in Receiver /\ (LockPairing(t) \/ UnlockPairing(t))
        \/ QueueAddress(t) \/ StartTimer(t) \/ EndMode \/ HandleQueue
    <3> DEFINE Same ==
          UNCHANGED <<pairing, teachIn, stop, processed, pairingMutex, modeMutex>>
    <3>1. ChooseSerial(t) \/ CreateNothing(t) \/ NamePeer(t) \/ SavePeer(t) => Same
      BY DEF ChooseSerial, CreateNothing, NamePeer, SavePeer
    <3>2. InsertPeer(t) \/ CheckDevice(t) \/ Session(t) => Same
      BY DEF InsertPeer, CheckDevice, Session
    <3>3. Unlist(t) \/ WaitForOthers(t) \/ GiveUp(t) \/ Purge(t) => Same
      BY DEF Unlist, WaitForOthers, GiveUp, Purge
    <3>4. PacketHandled(t) \/ RefuseRequest(t) \/ TeachIn(t) \/ DeleteFound(t) => Same
      BY DEF PacketHandled, RefuseRequest, TeachIn, DeleteFound
    <3> HIDE DEF Same
    <3>5. \/ Same \/ FinishPeer(t)
          \/ t \in Receiver /\ (LockPairing(t) \/ UnlockPairing(t))
          \/ QueueAddress(t) \/ StartTimer(t) \/ EndMode \/ HandleQueue
      BY <1>2, <3>1, <3>2, <3>3, <3>4 DEF Step
    <3> QED
      BY <3>5 DEF Same
  <2> QED
    BY <2>1, <2>2, <2>3, <2>4, <2>5, <2>6, <2>7, <2>8
<1>3. ASSUME NEW x \in Receiver, PacketReceived(x) PROVE FlagTypes'
  BY <1>1, <1>3 DEF PacketReceived, FlagTypes
<1>4. ASSUME NEW r \in Rpc,
             \/ CreateDevice(r) \/ DeletePeer(r) \/ SetInstallMode(r)
             \/ LookUpSerial(r) \/ CommissionByCode(r)
      PROVE  FlagTypes'
  BY <1>1, <1>4 DEF CreateDevice, DeletePeer, SetInstallMode, LookUpSerial,
                    CommissionByCode, FlagTypes
<1>5. CASE Restart
  BY <1>5 DEF Restart, FlagTypes
<1>6. CASE UNCHANGED vars
  BY <1>1, <1>6 DEF vars, FlagTypes
<1> QED
  BY <1>2, <1>3, <1>4, <1>5, <1>6 DEF Next

LEMMA TypeStep ==
  ASSUME TypeInv, JobInv, ModeInv, [Next]_vars
  PROVE  TypeInv'
<1>1. MapTypes' /\ FlagTypes' /\ job' \in [Thread -> Job]
  BY MapTypesStep, FlagTypesStep, Steps
<1>2. queue' \in 0..MaxModes
  <2>1. ModeInv' /\ MaxModes \in Nat
    BY ModeStep, Numbers
  <2>2. /\ queue' \in Nat /\ budget'.modes \in Nat /\ Pending' \in {0, 1, 2}
        /\ queue' + budget'.modes + Pending' <= MaxModes
    BY <2>1 DEF ModeInv, Pending
  <2> QED
    BY <2>1, <2>2
<1>3. \A t \in Thread :
        /\ job'[t].pc \in Creating \cup Deleting \cup
             {"idle", "use", "lock", "request", "unlock", "check", "session",
              "join", "tick", "lookup"}
        /\ job'[t].peer \in Peer \cup {None}
        /\ job'[t].serial \in Serial
        /\ job'[t].uses \subseteq Peer
        /\ job'[t].ticks \in 0..MaxTicks
  BY <1>1 DEF Job
<1> QED
  BY <1>1, <1>2, <1>3 DEF TypeInv, TypeOK, MapTypes, FlagTypes

LEMMA KnownStep ==
  ASSUME TypeInv, JobInv, KnownInv, [Next]_vars
  PROVE  KnownInv'
<1> USE DEF maps, modeVars, history, Owning
<1>1. CASE Quiet
  BY <1>1 DEF Quiet, KnownInv, Known
<1>2. CASE Restart
  BY <1>2 DEF Restart, KnownInv, Known
<1>3. ASSUME NEW t \in Thread, Loud(t) PROVE KnownInv'
  <2>1. job[t] \in Job /\ (job[t].pc \in Owning => job[t].peer \in Known)
    BY DEF TypeInv, JobInv
  <2>2. job[t].serial \in Serial /\ bySerial \in [Serial -> Peer \cup {None}]
    BY <2>1 DEF Job, TypeInv, TypeOK
  <2>3. CASE ChooseSerial(t)
    BY <2>3, ChooseEffect DEF KnownInv
  <2>4. Known' = Known \/ ChooseSerial(t)
    BY <1>3 DEF Loud, NamePeer, SavePeer, InsertPeer, Delete, Unlist,
                WaitForOthers, GiveUp, Purge, Known
  <2>5. CASE NamePeer(t)
    BY <2>1, <2>2, <2>3, <2>4, <2>5 DEF NamePeer, KnownInv
  <2>6. CASE SavePeer(t)
    BY <2>1, <2>3, <2>4, <2>6 DEF SavePeer, KnownInv
  <2>7. CASE InsertPeer(t)
    <3>1. /\ job[t].peer \in Known
          /\ bySerial' \in {bySerial, [bySerial EXCEPT ![job[t].serial] = job[t].peer]}
          /\ byId' = byId \cup {job[t].peer}
          /\ stored' = stored
      BY <2>1, <2>7 DEF InsertPeer
    <3> QED
      BY <2>2, <2>3, <2>4, <3>1 DEF KnownInv
  <2>8. CASE \E p \in Peer : Delete(t, p)
    BY <2>3, <2>4, <2>8 DEF Delete, KnownInv
  <2>9. CASE Unlist(t)
    BY <2>2, <2>3, <2>4, <2>9 DEF Unlist, KnownInv
  <2>10. CASE WaitForOthers(t) \/ GiveUp(t) \/ Purge(t)
    BY <2>3, <2>4, <2>10 DEF WaitForOthers, GiveUp, Purge, KnownInv
  <2> QED
    BY <1>3, <2>3, <2>5, <2>6, <2>7, <2>8, <2>9, <2>10 DEF Loud
<1> QED
  BY <1>1, <1>2, <1>3, Steps

LEMMA JobStep ==
  ASSUME TypeInv, JobInv, KnownInv, MapsInv, [Next]_vars
  PROVE  JobInv'
<1> USE DEF Owning, Creating, Deleting
<1> DEFINE Good(u) ==
      LET w == job[u]
      IN /\ w.pc \in Owning \cup Deleting => w.peer \in Known
         /\ w.pc \notin Creating \cup Deleting => w.peer = None
         /\ w.pc = "serial" => w.peer = None
         /\ w.pc = "finish" => w.peer \in Known \cup {None}
         /\ w.pc \in Owning => w.serial = serial[w.peer]
         /\ w.uses \subseteq Known
<1>1. \A u \in Thread : Good(u)
  BY DEF JobInv
<1>2. byId \subseteq Known /\ byAddress = byId
  BY DEF KnownInv, MapsInv
<1>3. CASE Quiet
  <2>1. UNCHANGED <<serial, created>> /\ \A u \in Thread : Aside(u)
    BY <1>3 DEF Quiet
  <2>2. ASSUME NEW u \in Thread PROVE job'[u].uses \subseteq Known
    BY <1>1, <1>2, <2>1 DEF Aside, KnownInv
  <2>3. \A u \in Thread : Good(u)'
    BY <1>1, <2>1, <2>2 DEF Aside, Known
  <2> QED
    BY <2>3 DEF JobInv
<1>4. CASE Restart
  BY <1>4 DEF Restart, Idle, JobInv
<1>5. ASSUME NEW t \in Thread, Loud(t), OthersAlike(t),
             UNCHANGED <<serial, created>>, Good(t)'
      PROVE  JobInv'
  <2>1. \A u \in Thread \ {t} : Good(u)'
    BY <1>1, <1>5 DEF OthersAlike, Alike, Known
  <2> QED
    BY <1>5, <2>1 DEF JobInv
<1>6. ASSUME NEW t \in Thread, Loud(t) PROVE JobInv'
  <2>1. CASE ChooseSerial(t)
    <3>1. \A u \in Thread \ {t} : Good(u)'
      BY <1>1, <2>1, ChooseEffect DEF OthersSame
    <3>2. Good(t)'
      BY <1>1, <2>1, ChooseEffect
    <3> QED
      BY <3>1, <3>2 DEF JobInv
  <2>2. CASE InsertPeer(t)
    <3>1. OthersAlike(t) /\ UNCHANGED <<serial, created>>
      BY <2>2, InsertEffect DEF InsertPeer
    <3>2. Good(t)'
      BY <1>1, <2>2, <3>1, InsertEffect DEF Alike, Known
    <3> QED
      BY <1>5, <1>6, <3>1, <3>2
  <2>3. CASE NamePeer(t) \/ SavePeer(t) \/ Unlist(t) \/ WaitForOthers(t) \/ GiveUp(t)
    <3>1. UNCHANGED <<serial, created>>
      BY <2>3 DEF NamePeer, SavePeer, Unlist, WaitForOthers, GiveUp, maps
    <3>2. /\ OthersAlike(t)
          /\ Alike(t)
          /\ \/ job[t].pc \in {"name", "save"} /\ job'[t].pc \in {"save", "insert"}
             \/ job[t].pc \in Deleting /\ job'[t].pc \in {"wait", "purge"}
      BY <2>3, OtherEffects, SameAlike
         DEF NamePeer, SavePeer, Unlist, WaitForOthers, GiveUp
    <3>3. Good(t)'
      BY <1>1, <3>1, <3>2 DEF Alike, Known
    <3> QED
      BY <1>5, <1>6, <3>1, <3>2, <3>3
  <2>4. CASE Purge(t)
    <3>1. OthersAlike(t) /\ UNCHANGED <<serial, created>>
      BY <2>4, PurgeEffect, SameAlike DEF Purge
    <3>2. Good(t)'
      BY <2>4, PurgeEffect
    <3> QED
      BY <1>5, <1>6, <3>1, <3>2
  <2>5. CASE \E p \in Peer : Delete(t, p)
    <3>1. OthersAlike(t) /\ UNCHANGED <<serial, created>>
      BY <2>5, SameAlike DEF Delete, OthersSame
    <3>2. Good(t)'
      BY <1>1, <1>2, <2>5 DEF Delete, Known
    <3> QED
      BY <1>5, <1>6, <3>1, <3>2
  <2> QED
    BY <1>6, <2>1, <2>2, <2>3, <2>4, <2>5 DEF Loud
<1> QED
  BY <1>3, <1>4, <1>6, Steps
-----------------------------------------------------------------------------
(* The maps and the database.                                              *)

Held(p, places) == \E t \in Thread : job[t].peer = p /\ job[t].pc \in places

LEMMA MapsStep ==
  ASSUME TypeInv, JobInv, KnownInv, OwnerInv, DeletionInv, MapsInv, [Next]_vars
  PROVE  MapsInv'
<1> USE DEF Owning, Deleting
<1> DEFINE Found == \A p \in byId : serial[p] \notin twice => bySerial[serial[p]] = p
           Beside == \A p \in stored \ byId : Held(p, {"insert", "wait", "purge"})
           Named == \A s \in Serial : bySerial[s] # None =>
                      /\ serial[bySerial[s]] = s
                      /\ bySerial[s] \in byId \/ Held(bySerial[s], {"save", "insert"})
<1>1. Found /\ Beside /\ Named /\ byAddress = byId /\ byId \subseteq stored
  BY DEF MapsInv, Held
<1>2. /\ byId \subseteq Known /\ stored \subseteq Known /\ Known \subseteq Peer
      /\ \A s \in Serial : bySerial[s] # None => bySerial[s] \in Known
      /\ bySerial \in [Serial -> Peer \cup {None}]
      /\ \A p \in Peer : serial[p] \in Serial
      /\ None \notin Peer
  BY KnownPeers, Numbers DEF KnownInv, TypeInv, TypeOK
<1>3. ASSUME Found', Beside', Named', byAddress' = byId', byId' \subseteq stored'
      PROVE  MapsInv'
  BY <1>3 DEF MapsInv, Held
<1>4. CASE Quiet
  <2>1. /\ UNCHANGED <<bySerial, byId, byAddress, stored, serial, twice>>
        /\ \A u \in Thread : Aside(u)
    BY <1>4 DEF Quiet
  <2>2. \A u \in Thread : job[u].pc \in Owning \cup Deleting => job'[u] = job[u]
    BY <2>1 DEF Aside
  <2>3. \A p : /\ Held(p, {"insert", "wait", "purge"}) =>
                    Held(p, {"insert", "wait", "purge"})'
               /\ Held(p, {"save", "insert"}) => Held(p, {"save", "insert"})'
    BY <2>2 DEF Held
  <2> QED
    BY <1>1, <1>2, <1>3, <2>1, <2>3
<1>5. CASE Restart
  <2>1. /\ byId' = stored /\ byAddress' = stored /\ UNCHANGED <<stored, serial>>
        /\ \A s \in Serial :
             LET named == {p \in stored : serial[p] = s}
             IN IF named = {} THEN bySerial'[s] = None ELSE bySerial'[s] \in named
        /\ \A s \in Serial : \A p, q \in stored :
             p # q /\ serial[p] = s /\ serial[q] = s => s \in twice'
    BY <1>5 DEF Restart
  <2>2. Found'
    <3> SUFFICES ASSUME NEW p \in stored, serial[p] \notin twice'
                 PROVE  bySerial'[serial[p]] = p
      BY <2>1
    <3>1. serial[p] \in Serial
      BY <1>2
    <3>2. bySerial'[serial[p]] \in stored
          /\ serial[bySerial'[serial[p]]] = serial[p]
      BY <2>1, <3>1
    <3> QED
      BY <2>1, <3>1, <3>2
  <2>3. Beside' /\ byAddress' = byId' /\ byId' \subseteq stored'
    BY <2>1
  <2>4. Named'
    <3> SUFFICES ASSUME NEW s \in Serial, bySerial'[s] # None
                 PROVE  bySerial'[s] \in stored /\ serial[bySerial'[s]] = s
      BY <2>1
    <3> QED
      BY <2>1
  <2> QED
    BY <1>3, <2>2, <2>3, <2>4
<1>6. ASSUME NEW t \in Thread, Loud(t), NEW p, p = job[t].peer PROVE MapsInv'
  <2> DEFINE w == job[t]
  <2>1. /\ w \in Job
        /\ w.pc \in Owning \cup Deleting => p \in Known
        /\ w.pc \in Owning => w.serial = serial[p]
    BY <1>6 DEF TypeInv, JobInv
  <2>2. ASSUME NEW places, OthersAlike(t),
               job[t].pc \in places => job'[t].pc \in places /\ Alike(t)
        PROVE  \A q : Held(q, places) => Held(q, places)'
    BY <2>2 DEF Held, OthersAlike, Alike
  <2>3. CASE ChooseSerial(t)
    <3>1. /\ \A q \in Known : serial'[q] = serial[q]
          /\ UNCHANGED <<bySerial, byId, byAddress, stored>>
          /\ twice \subseteq twice' /\ OthersSame(t) /\ w.pc = "serial"
      BY <2>3, ChooseEffect
    <3>2. \A q : /\ Held(q, {"insert", "wait", "purge"}) =>
                      Held(q, {"insert", "wait", "purge"})'
                 /\ Held(q, {"save", "insert"}) => Held(q, {"save", "insert"})'
      BY <2>2, <3>1, SameAlike
    <3> QED
      BY <1>1, <1>2, <1>3, <3>1, <3>2
  <2>4. CASE NamePeer(t)
    <3>1. /\ w.pc = "name" /\ bySerial' = [bySerial EXCEPT ![w.serial] = p]
          /\ UNCHANGED <<byId, byAddress, stored, serial, twice>>
          /\ OthersSame(t) /\ Alike(t) /\ job'[t].pc = "save"
      BY <1>6, <2>4, OtherEffects DEF NamePeer, history
    <3>2. \A q : /\ Held(q, {"insert", "wait", "purge"}) =>
                      Held(q, {"insert", "wait", "purge"})'
                 /\ Held(q, {"save", "insert"}) => Held(q, {"save", "insert"})'
      BY <2>2, <3>1, SameAlike
    <3>3. /\ w.serial = serial[p] /\ w.serial \in Serial /\ p \in Known
          /\ w.serial \notin twice => \A q \in byId : serial[q] # w.serial
      BY <1>6, <2>1, <3>1 DEF OwnerInv, Owner, Job
    <3>4. Held(p, {"save", "insert"})'
      BY <1>6, <3>1 DEF Held, Alike
    <3>5. \A s \in Serial : bySerial'[s] = IF s = w.serial THEN p ELSE bySerial[s]
      BY <1>2, <3>1
    <3>6. Found'
      BY <1>1, <1>2, <3>1, <3>3, <3>5
    <3>7. Named'
      <4> SUFFICES ASSUME NEW s \in Serial, NEW q, q = bySerial'[s], q # None
                   PROVE  /\ serial'[q] = s
                          /\ q \in byId' \/ Held(q, {"save", "insert"})'
        BY Zenon
      <4>1. CASE s = w.serial
        BY <3>1, <3>3, <3>4, <3>5, <4>1
      <4>2. CASE s # w.serial
        BY <1>1, <3>1, <3>2, <3>5, <4>2
      <4> QED
        BY <4>1, <4>2
    <3> QED
      BY <1>1, <1>3, <3>1, <3>2, <3>6, <3>7
  <2>5. CASE SavePeer(t)
    <3>1. /\ w.pc = "save" /\ stored' = stored \cup {p}
          /\ UNCHANGED <<bySerial, byId, byAddress, serial, twice>>
          /\ OthersSame(t) /\ Alike(t) /\ job'[t].pc = "insert"
      BY <1>6, <2>5, OtherEffects DEF SavePeer, history
    <3>2. \A q : /\ Held(q, {"insert", "wait", "purge"}) =>
                      Held(q, {"insert", "wait", "purge"})'
                 /\ Held(q, {"save", "insert"}) => Held(q, {"save", "insert"})'
      BY <2>2, <3>1, SameAlike
    <3>3. Held(p, {"insert", "wait", "purge"})'
      BY <1>6, <3>1 DEF Held, Alike
    <3>4. Found' /\ Named'
      BY <1>1, <3>1, <3>2
    <3>5. Beside'
      <4> SUFFICES ASSUME NEW q \in stored', q \notin byId'
                   PROVE  Held(q, {"insert", "wait", "purge"})'
        OBVIOUS
      <4> QED
        BY <1>1, <3>1, <3>2, <3>3
    <3> QED
      BY <1>1, <1>3, <3>1, <3>4, <3>5
  <2>6. CASE InsertPeer(t)
    <3>1. /\ w.pc = "insert" /\ byId' = byId \cup {p}
          /\ byAddress' = byAddress \cup {p}
          /\ bySerial' = IF w.kind = "create"
                         THEN [bySerial EXCEPT ![w.serial] = p] ELSE bySerial
          /\ UNCHANGED <<stored, serial, twice>>
      BY <1>6, <2>6 DEF InsertPeer
    <3>2. OthersAlike(t)
      BY <2>6, InsertEffect
    <3>3. \A q, places :
            q # p /\ Held(q, places) => Held(q, places)'
      BY <1>6, <3>2 DEF Held, OthersAlike, Alike
    <3>4. /\ w.serial = serial[p] /\ w.serial \in Serial /\ p \in Known
          /\ p \in stored
          /\ w.serial \notin twice =>
               /\ \A q \in byId : serial[q] # w.serial
               /\ w.kind # "create" => bySerial[w.serial] = p
      BY <1>6, <2>1, <3>1 DEF OwnerInv, Owner, Job
    <3>5. \A s \in Serial : bySerial'[s] = IF w.kind = "create" /\ s = w.serial
                                           THEN p ELSE bySerial[s]
      BY <1>2, <3>1
    <3>6. Found'
      BY <1>1, <1>2, <3>1, <3>4, <3>5
    <3>7. Named'
      BY <1>1, <1>2, <3>1, <3>3, <3>4, <3>5
    <3>8. Beside'
      BY <1>1, <3>1, <3>3
    <3> QED
      BY <1>1, <1>3, <3>1, <3>4, <3>6, <3>7, <3>8
  <2>7. CASE \E q \in Peer : Delete(t, q)
    <3>1. /\ UNCHANGED <<bySerial, byId, byAddress, stored, serial>>
          /\ twice \subseteq twice' /\ OthersSame(t)
          /\ w.pc \notin Owning \cup Deleting
      BY <2>7 DEF Delete, OthersSame
    <3>2. \A q : /\ Held(q, {"insert", "wait", "purge"}) =>
                      Held(q, {"insert", "wait", "purge"})'
                 /\ Held(q, {"save", "insert"}) => Held(q, {"save", "insert"})'
      BY <2>2, <3>1, SameAlike
    <3> QED
      BY <1>1, <1>2, <1>3, <3>1, <3>2
  <2>8. CASE Unlist(t)
    <3>1. /\ w.pc = "unlist" /\ bySerial' = [bySerial EXCEPT ![serial[p]] = None]
          /\ byId' = byId \ {p} /\ byAddress' = byAddress \ {p}
          /\ UNCHANGED <<stored, serial, twice>>
          /\ OthersSame(t) /\ Alike(t) /\ job'[t].pc = "wait"
      BY <1>6, <2>8, OtherEffects DEF Unlist, history
    <3>2. \A q : /\ Held(q, {"insert", "wait", "purge"}) =>
                      Held(q, {"insert", "wait", "purge"})'
                 /\ Held(q, {"save", "insert"}) => Held(q, {"save", "insert"})'
      BY <2>2, <3>1, SameAlike
    <3>3. Held(p, {"insert", "wait", "purge"})'
      BY <1>6, <3>1 DEF Held, Alike
    <3>4. p \in Known /\ serial[p] \in Serial /\ (p \in byId \/ serial[p] \in twice)
      BY <1>2, <1>6, <2>1, <3>1 DEF DeletionInv, Deletion
    <3>5. \A s \in Serial : bySerial'[s] = IF s = serial[p] THEN None ELSE bySerial[s]
      BY <1>2, <3>1
    <3>6. Found'
      BY <1>1, <1>2, <3>1, <3>4, <3>5
    <3>7. Named'
      BY <1>1, <1>2, <3>1, <3>2, <3>4, <3>5
    <3>8. Beside'
      <4> SUFFICES ASSUME NEW q \in stored', q \notin byId'
                   PROVE  Held(q, {"insert", "wait", "purge"})'
        OBVIOUS
      <4> QED
        BY <1>1, <3>1, <3>2, <3>3
    <3> QED
      BY <1>1, <1>3, <3>1, <3>6, <3>7, <3>8
  <2>9. CASE WaitForOthers(t) \/ GiveUp(t)
    <3>1. /\ UNCHANGED <<bySerial, byId, byAddress, stored, serial, twice>>
          /\ w.pc = "wait" /\ OthersSame(t) /\ Alike(t) /\ job'[t].pc = "purge"
      BY <2>9, OtherEffects DEF WaitForOthers, GiveUp, maps, history
    <3>2. \A q : /\ Held(q, {"insert", "wait", "purge"}) =>
                      Held(q, {"insert", "wait", "purge"})'
                 /\ Held(q, {"save", "insert"}) => Held(q, {"save", "insert"})'
      BY <2>2, <3>1, SameAlike
    <3> QED
      BY <1>1, <1>2, <1>3, <3>1, <3>2
  <2>10. CASE Purge(t)
    <3>1. /\ w.pc = "purge" /\ stored' = stored \ {p} /\ OthersSame(t)
          /\ UNCHANGED <<bySerial, byId, byAddress, serial, twice>>
      BY <1>6, <2>10, PurgeEffect DEF Purge, history
    <3>2. p \notin byId
      BY <1>6, <3>1 DEF DeletionInv, Deletion
    <3>3. \A q : /\ q # p /\ Held(q, {"insert", "wait", "purge"}) =>
                      Held(q, {"insert", "wait", "purge"})'
                 /\ Held(q, {"save", "insert"}) => Held(q, {"save", "insert"})'
      BY <1>6, <3>1 DEF Held, OthersSame
    <3> QED
      BY <1>1, <1>3, <3>1, <3>2, <3>3
  <2> QED
    BY <1>6, <2>3, <2>4, <2>5, <2>6, <2>7, <2>8, <2>9, <2>10 DEF Loud
<1> QED
  BY <1>4, <1>5, <1>6, Steps
-----------------------------------------------------------------------------
(* Creations and deletions.                                                *)

LEMMA OwnerStep ==
  ASSUME TypeInv, JobInv, KnownInv, OwnerInv, DeletionInv, MapsInv, [Next]_vars
  PROVE  OwnerInv'
<1>1. \A u \in Thread : job[u].pc \in Owning => Owner(u)
  BY DEF OwnerInv
<1>2. /\ byId \subseteq Known /\ Known \subseteq Peer /\ None \notin Peer
      /\ \A u \in Thread : /\ job[u].peer \in Known \cup {None}
                           /\ job[u].pc \in Owning =>
                                /\ job[u].peer \in Known /\ job[u].serial \in Serial
                                /\ job[u].serial = serial[job[u].peer]
                           /\ job[u].pc \in Deleting => job[u].peer \in Known
      /\ bySerial \in [Serial -> Peer \cup {None}]
  <2>1. \A u \in Thread : job[u] \in Job
    BY DEF TypeInv
  <2> QED
    BY <2>1, KnownPeers, Numbers
       DEF KnownInv, TypeInv, TypeOK, JobInv, Job, Owning, Deleting, Creating
<1>3. \A p \in byId : serial[p] \notin twice => bySerial[serial[p]] = p
  BY DEF MapsInv
<1>4. ASSUME \A u \in Thread : job'[u].pc \in Owning => Owner(u)'
      PROVE  OwnerInv'
  BY <1>4 DEF OwnerInv
<1>5. CASE Quiet
  <2>1. /\ UNCHANGED <<bySerial, byId, stored, serial, twice>>
        /\ \A u \in Thread : Aside(u)
    BY <1>5 DEF Quiet
  <2>2. ASSUME NEW v \in Thread, job'[v].pc \in Owning PROVE Owner(v)'
    <3>1. job'[v] = job[v]
      BY <2>1, <2>2 DEF Aside
    <3>2. job[v].pc \in Owning /\ Owner(v) /\ job[v].peer # None
      BY <1>1, <1>2, <2>2, <3>1
    <3>3. \A u \in Thread \ {v} :
            /\ job'[u].peer # job[v].peer
            /\ job'[u].pc \in Owning => job[u] = job'[u]
      BY <2>1, <3>2 DEF Aside, Owner
    <3> QED
      BY <2>1, <3>1, <3>2, <3>3 DEF Owner
  <2> QED
    BY <1>4, <2>2
<1>6. CASE Restart
  <2>1. \A u \in Thread : job'[u].pc \notin Owning
    BY <1>6 DEF Restart, Idle, Owning
  <2> QED
    BY <1>4, <2>1
<1>7. ASSUME NEW t \in Thread, Loud(t) PROVE OwnerInv'
  <2>1. CASE ChooseSerial(t)
    <3>1. PICK s \in Serial, p \in Peer :
            LET new == job'[t]
            IN /\ bySerial[s] = None /\ p \notin Known
               /\ \A q \in Known : serial'[q] = serial[q]
               /\ new.pc = IF job[t].kind = "create" THEN "save" ELSE "name"
               /\ new.kind = job[t].kind /\ new.serial = s /\ new.peer = p
               /\ OthersSame(t)
               /\ twice' \in {twice, twice \cup {s}}
               /\ \A u \in Thread \ {t} :
                    job[u].pc \in Owning /\ job[u].serial = s /\ job[u].peer # None
                      => s \in twice'
               /\ UNCHANGED <<bySerial, byId, stored>>
      BY <2>1, ChooseEffect
    <3>2. ASSUME NEW v \in Thread \ {t}, job'[v].pc \in Owning PROVE Owner(v)'
      <4>1. job'[v] = job[v] /\ Owner(v) /\ job[v].peer \in Known
        BY <1>1, <1>2, <3>1, <3>2 DEF OthersSame
      <4>2. job[v].serial \notin twice' => job[v].serial # s
        BY <1>2, <3>1, <3>2, <4>1
      <4>3. \A u \in Thread \ {v} :
              /\ job'[u].peer # job[v].peer
              /\ job'[u].pc \in Owning /\ job[v].serial \notin twice' =>
                   job'[u].serial # job[v].serial
        BY <3>1, <4>1, <4>2 DEF Owner, OthersSame
      <4> QED
        BY <1>2, <3>1, <4>1, <4>3 DEF Owner
    <3>3. Owner(t)'
      <4>1. \A u \in Thread \ {t} : job'[u] = job[u] /\ job[u].peer # p
        BY <1>2, <3>1 DEF OthersSame
      <4>2. s \notin twice' => \A q \in byId : serial'[q] # s
        BY <1>2, <1>3, <3>1
      <4>3. s \notin twice' =>
              \A u \in Thread \ {t} : job'[u].pc \in Owning => job'[u].serial # s
        BY <1>2, <3>1, <4>1
      <4> QED
        BY <1>2, <3>1, <4>1, <4>2, <4>3 DEF Owner
    <3> QED
      BY <1>4, <3>2, <3>3
  <2>2. CASE NamePeer(t)
    <3>1. /\ job[t].pc = "name"
          /\ bySerial' = [bySerial EXCEPT ![job[t].serial] = job[t].peer]
          /\ UNCHANGED <<byId, stored, serial, twice>>
          /\ OthersSame(t) /\ Alike(t) /\ job'[t].pc = "save"
      BY <2>2, OtherEffects DEF NamePeer, history
    <3>2. Owner(t) /\ job[t].serial \in Serial /\ job[t].pc \in Owning
      BY <1>1, <1>2, <3>1 DEF Owning
    <3>3. ASSUME NEW v \in Thread \ {t}, job'[v].pc \in Owning PROVE Owner(v)'
      <4>1. job'[v] = job[v] /\ Owner(v) /\ job[v].serial \in Serial
        BY <1>1, <1>2, <3>1, <3>3 DEF OthersSame
      <4>2. job[v].serial \notin twice =>
              bySerial'[job[v].serial] = bySerial[job[v].serial]
        BY <1>2, <3>1, <3>2, <4>1 DEF Owner
      <4>3. \A u \in Thread : /\ job'[u].peer = job[u].peer
                              /\ job'[u].serial = job[u].serial
                              /\ job'[u].pc \in Owning => job[u].pc \in Owning
        BY <3>1, <3>2 DEF OthersSame, Alike
      <4> QED
        BY <3>1, <4>1, <4>2, <4>3 DEF Owner
    <3>4. Owner(t)'
      BY <1>2, <3>1, <3>2 DEF Owner, OthersSame, Alike
    <3> QED
      BY <1>4, <3>3, <3>4
  <2>3. CASE SavePeer(t)
    <3>1. /\ job[t].pc = "save" /\ stored' = stored \cup {job[t].peer}
          /\ UNCHANGED <<bySerial, byId, serial, twice>>
          /\ OthersSame(t) /\ Alike(t) /\ job'[t].pc = "insert"
      BY <2>3, OtherEffects DEF SavePeer, history
    <3>2. Owner(t) /\ job[t].pc \in Owning
      BY <1>1, <3>1 DEF Owning
    <3>3. ASSUME NEW v \in Thread \ {t}, job'[v].pc \in Owning PROVE Owner(v)'
      <4>1. job'[v] = job[v] /\ Owner(v)
        BY <1>1, <3>1, <3>3 DEF OthersSame
      <4>2. \A u \in Thread : /\ job'[u].peer = job[u].peer
                              /\ job'[u].serial = job[u].serial
                              /\ job'[u].pc \in Owning => job[u].pc \in Owning
        BY <3>1, <3>2 DEF OthersSame, Alike
      <4> QED
        BY <3>1, <4>1, <4>2 DEF Owner
    <3>4. Owner(t)'
      BY <3>1, <3>2 DEF Owner, OthersSame, Alike
    <3> QED
      BY <1>4, <3>3, <3>4
  <2>4. CASE InsertPeer(t)
    <3>1. /\ job[t].pc = "insert" /\ byId' = byId \cup {job[t].peer}
          /\ bySerial' \in {bySerial, [bySerial EXCEPT ![job[t].serial] = job[t].peer]}
          /\ UNCHANGED <<stored, serial, twice>>
          /\ OthersAlike(t) /\ job'[t].pc = "finish" /\ Alike(t)
      BY <2>4, InsertEffect DEF InsertPeer
    <3>2. /\ Owner(t) /\ job[t].serial \in Serial /\ job[t].pc \in Owning
          /\ job[t].serial = serial[job[t].peer]
      BY <1>1, <1>2, <3>1 DEF Owning
    <3>3. ASSUME NEW v \in Thread \ {t}, job'[v].pc \in Owning PROVE Owner(v)'
      <4>1. /\ job'[v].pc = job[v].pc /\ Alike(v) /\ Owner(v)
            /\ job[v].serial \in Serial
        BY <1>1, <1>2, <3>1, <3>3 DEF OthersAlike
      <4>2. job[v].serial \notin twice =>
              /\ job[t].serial # job[v].serial
              /\ bySerial'[job[v].serial] = bySerial[job[v].serial]
        BY <1>2, <3>1, <3>2, <4>1 DEF Owner
      <4>3. \A u \in Thread : /\ job'[u].peer = job[u].peer
                              /\ job'[u].serial = job[u].serial
                              /\ job'[u].pc \in Owning => job[u].pc \in Owning
        BY <3>1, <3>2 DEF OthersAlike, Alike
      <4>4. job[t].peer # job[v].peer
        BY <4>1 DEF Owner
      <4> QED
        BY <3>1, <3>2, <4>1, <4>2, <4>3, <4>4 DEF Owner, Alike
    <3>4. job'[t].pc \notin Owning
      BY <3>1 DEF Owning
    <3> QED
      BY <1>4, <3>3, <3>4
  <2>5. ASSUME NEW p \in Peer, Delete(t, p) PROVE OwnerInv'
    <3>1. /\ UNCHANGED <<bySerial, byId, stored, serial>> /\ twice \subseteq twice'
          /\ OthersSame(t) /\ job'[t].pc = "unlist" /\ job'[t].peer = p /\ p \in byId
      BY <2>5 DEF Delete, OthersSame
    <3>2. ASSUME NEW v \in Thread, job'[v].pc \in Owning PROVE Owner(v)'
      <4>1. v # t /\ job'[v] = job[v] /\ Owner(v)
        BY <1>1, <3>1, <3>2 DEF OthersSame, Owning
      <4>2. \A u \in Thread \ {v} : job'[u].peer # job[v].peer
        BY <3>1, <4>1 DEF OthersSame, Owner
      <4>3. \A u \in Thread : job'[u].pc \in Owning => job'[u] = job[u]
        BY <3>1 DEF OthersSame, Owning
      <4> QED
        BY <3>1, <4>1, <4>2, <4>3 DEF Owner
    <3> QED
      BY <1>4, <3>2
  <2>6. CASE Unlist(t)
    <3>1. /\ job[t].pc = "unlist" /\ byId' = byId \ {job[t].peer}
          /\ bySerial' = [bySerial EXCEPT ![serial[job[t].peer]] = None]
          /\ UNCHANGED <<stored, serial, twice>>
          /\ OthersSame(t) /\ Alike(t) /\ job'[t].pc = "wait"
      BY <2>6, OtherEffects DEF Unlist, history
    <3>2. job[t].peer \in byId \/ serial[job[t].peer] \in twice
      BY <3>1 DEF DeletionInv, Deletion, Deleting
    <3>3. ASSUME NEW v \in Thread, job'[v].pc \in Owning PROVE Owner(v)'
      <4>1. v # t /\ job'[v] = job[v] /\ Owner(v) /\ job[v].serial \in Serial
        BY <1>1, <1>2, <3>1, <3>3 DEF OthersSame, Owning
      <4>2. job[v].serial \notin twice =>
              bySerial'[job[v].serial] = bySerial[job[v].serial]
        BY <1>2, <3>1, <3>2, <4>1 DEF Owner
      <4>3. \A u \in Thread : /\ job'[u].peer = job[u].peer
                              /\ job'[u].pc \in Owning => job'[u] = job[u]
        BY <3>1 DEF OthersSame, Alike, Owning
      <4> QED
        BY <3>1, <4>1, <4>2, <4>3 DEF Owner
    <3> QED
      BY <1>4, <3>3
  <2>7. CASE WaitForOthers(t) \/ GiveUp(t)
    <3>1. /\ UNCHANGED <<bySerial, byId, stored, serial, twice>>
          /\ OthersSame(t) /\ Alike(t) /\ job'[t].pc = "purge"
      BY <2>7, OtherEffects DEF WaitForOthers, GiveUp, maps, history
    <3>2. ASSUME NEW v \in Thread, job'[v].pc \in Owning PROVE Owner(v)'
      <4>1. v # t /\ job'[v] = job[v] /\ Owner(v)
        BY <1>1, <3>1, <3>2 DEF OthersSame, Owning
      <4>2. \A u \in Thread : /\ job'[u].peer = job[u].peer
                              /\ job'[u].pc \in Owning => job'[u] = job[u]
        BY <3>1 DEF OthersSame, Alike, Owning
      <4> QED
        BY <3>1, <4>1, <4>2 DEF Owner
    <3> QED
      BY <1>4, <3>2
  <2>8. CASE Purge(t)
    <3>1. /\ stored' = stored \ {job[t].peer} /\ job[t].pc = "purge"
          /\ UNCHANGED <<bySerial, byId, serial, twice>>
          /\ OthersSame(t) /\ job'[t].pc \in {"idle", "unlock"} /\ job'[t].peer = None
      BY <2>8, PurgeEffect DEF Purge, history
    <3>2. ASSUME NEW v \in Thread, job'[v].pc \in Owning PROVE Owner(v)'
      <4>1. v # t /\ job'[v] = job[v] /\ Owner(v) /\ job[v].peer # None
        BY <1>1, <1>2, <3>1, <3>2 DEF OthersSame, Owning
      <4>2. \A u \in Thread \ {v} : job'[u].peer # job[v].peer
        BY <3>1, <4>1 DEF OthersSame, Owner
      <4>3. \A u \in Thread : job'[u].pc \in Owning => job'[u] = job[u]
        BY <3>1 DEF OthersSame, Owning
      <4>4. job[t].peer # job[v].peer
        BY <4>1 DEF Owner
      <4> QED
        BY <3>1, <4>1, <4>2, <4>3, <4>4 DEF Owner
    <3> QED
      BY <1>4, <3>2
  <2> QED
    BY <1>7, <2>1, <2>2, <2>3, <2>4, <2>5, <2>6, <2>7, <2>8 DEF Loud
<1> QED
  BY <1>5, <1>6, <1>7, Steps

LEMMA DeletionStep ==
  ASSUME TypeInv, JobInv, KnownInv, OwnerInv, DeletionInv, MapsInv, [Next]_vars
  PROVE  DeletionInv'
<1>1. /\ \A u \in Thread : job[u].pc \in Deleting =>
           Deletion(u) /\ job[u].peer \in Known
      /\ \A u \in Thread : job[u].peer \in Known \cup {None}
      /\ byId \subseteq Known /\ byAddress = byId /\ None \notin Known
  <2>1. \A u \in Thread : job[u] \in Job
    BY DEF TypeInv
  <2> QED
    BY <2>1, KnownPeers, Numbers
       DEF DeletionInv, JobInv, KnownInv, MapsInv, Job, Owning, Deleting, Creating
<1>2. CASE Quiet
  <2>1. /\ UNCHANGED <<byId, serial, twice, late>>
        /\ \A u \in Thread : Aside(u)
    BY <1>2 DEF Quiet
  <2>2. ASSUME NEW v \in Thread, job'[v].pc \in Deleting PROVE Deletion(v)'
    <3>1. job'[v] = job[v] /\ Deletion(v)
      BY <1>1, <2>1, <2>2 DEF Aside
    <3>2. \A u \in Thread : job'[u].pc \in Deleting => job'[u] = job[u]
      BY <2>1 DEF Aside
    <3>3. ASSUME job[v].peer \notin byId,
                 NEW u \in Thread, job[v].peer \in job'[u].uses
          PROVE  job[v].peer \in job[u].uses
      <4>1. \A s \in Serial : bySerial[s] # job[v].peer
        <5> SUFFICES ASSUME NEW s \in Serial, bySerial[s] = job[v].peer PROVE FALSE
          OBVIOUS
        <5>1. PICK x \in Thread :
                job[x].peer = job[v].peer /\ job[x].pc \in {"save", "insert"}
          BY <1>1, <2>2, <3>1, <3>3 DEF MapsInv
        <5>2. x # v
          BY <2>2, <3>1, <5>1 DEF Deleting
        <5> QED
          BY <5>1, <5>2 DEF OwnerInv, Owner, Owning
      <4> QED
        BY <1>1, <2>1, <3>3, <4>1 DEF Aside
    <3> QED
      BY <2>1, <3>1, <3>2, <3>3 DEF Deletion, Holders
  <2> QED
    BY <2>2 DEF DeletionInv
<1>3. CASE Restart
  BY <1>3 DEF Restart, Idle, Deleting, DeletionInv
<1>4. ASSUME NEW t \in Thread, Loud(t) PROVE DeletionInv'
  <2>1. CASE ChooseSerial(t)
    <3>1. PICK p \in Peer :
            /\ p \notin Known /\ \A q \in Known : serial'[q] = serial[q]
            /\ job'[t].pc \in {"save", "name"}
            /\ job'[t].uses = job[t].uses \cup {p}
            /\ OthersSame(t) /\ twice \subseteq twice'
            /\ UNCHANGED <<byId, late>>
      BY <2>1, ChooseEffect
    <3>2. ASSUME NEW v \in Thread, job'[v].pc \in Deleting PROVE Deletion(v)'
      <4>1. /\ v # t /\ job'[v] = job[v] /\ Deletion(v) /\ job[v].peer \in Known
            /\ \A u \in Thread : job'[u].pc \in Deleting => job'[u] = job[u]
        BY <1>1, <3>1, <3>2 DEF OthersSame, Deleting
      <4>2. Holders(job[v].peer)' = Holders(job[v].peer)
        BY <3>1, <4>1 DEF Holders, OthersSame
      <4> QED
        BY <3>1, <4>1, <4>2 DEF Deletion, Holders
    <3> QED
      BY <3>2 DEF DeletionInv
  <2>2. CASE NamePeer(t) \/ SavePeer(t)
    <3>1. /\ UNCHANGED <<byId, serial, twice, late>>
          /\ OthersSame(t) /\ Alike(t) /\ job'[t].pc \in {"save", "insert"}
      BY <2>2, OtherEffects DEF NamePeer, SavePeer, history
    <3>2. ASSUME NEW v \in Thread, job'[v].pc \in Deleting PROVE Deletion(v)'
      <4>1. /\ v # t /\ job'[v] = job[v] /\ Deletion(v)
            /\ \A u \in Thread : job'[u].pc \in Deleting => job'[u] = job[u]
            /\ \A u \in Thread : job'[u].uses = job[u].uses
        BY <1>1, <3>1, <3>2 DEF OthersSame, Alike, Deleting
      <4> QED
        BY <3>1, <4>1 DEF Deletion, Holders
    <3> QED
      BY <3>2 DEF DeletionInv
  <2>3. CASE InsertPeer(t)
    <3>1. /\ job[t].pc = "insert" /\ byId' = byId \cup {job[t].peer}
          /\ UNCHANGED <<serial, twice, late>>
          /\ OthersAlike(t) /\ job'[t].pc = "finish" /\ Alike(t)
      BY <2>3, InsertEffect DEF InsertPeer
    <3>2. \A u \in Thread \ {t} : job[u].peer # job[t].peer
      BY <3>1 DEF OwnerInv, Owner, Owning
    <3>3. ASSUME NEW v \in Thread, job'[v].pc \in Deleting PROVE Deletion(v)'
      <4>1. /\ v # t /\ job'[v].pc = job[v].pc /\ Deletion(v)
            /\ \A u \in Thread : job'[u].pc \in Deleting => job[u].pc \in Deleting
            /\ \A u \in Thread : /\ job'[u].uses = job[u].uses
                                 /\ job'[u].peer = job[u].peer
        BY <1>1, <3>1, <3>3 DEF OthersAlike, Alike, Deleting
      <4> QED
        BY <3>1, <3>2, <4>1 DEF Deletion, Holders
    <3> QED
      BY <3>3 DEF DeletionInv
  <2>4. ASSUME NEW p \in Peer, Delete(t, p) PROVE DeletionInv'
    <3>1. /\ p \in byId /\ job'[t].pc = "unlist" /\ job'[t].peer = p
          /\ job'[t].uses \subseteq job[t].uses \cup {p} /\ OthersSame(t)
          /\ twice \subseteq twice'
          /\ \A u \in Thread \ {t} :
               job[u].pc \in Deleting /\ job[u].peer = p => serial[p] \in twice'
          /\ UNCHANGED <<byId, serial, late>>
      BY <2>4 DEF Delete, OthersSame
    <3>2. ASSUME NEW v \in Thread \ {t}, job'[v].pc \in Deleting PROVE Deletion(v)'
      <4>1. job'[v] = job[v] /\ Deletion(v)
        BY <1>1, <3>1, <3>2 DEF OthersSame
      <4>2. job[v].peer \notin byId =>
              \A u \in Thread :
                job[v].peer \in job'[u].uses => job[v].peer \in job[u].uses
        BY <3>1 DEF OthersSame
      <4>3. \A u \in Thread \ {v} :
              job'[u].pc \in Deleting /\ job'[u].peer = job[v].peer =>
                serial[job[v].peer] \in twice'
        BY <3>1, <3>2, <4>1 DEF OthersSame, Deletion
      <4> QED
        BY <3>1, <4>1, <4>2, <4>3 DEF Deletion, Holders
    <3>3. Deletion(t)'
      BY <3>1 DEF Deletion, OthersSame
    <3> QED
      BY <3>2, <3>3 DEF DeletionInv
  <2>5. CASE Unlist(t)
    <3>1. /\ job[t].pc = "unlist" /\ byId' = byId \ {job[t].peer}
          /\ UNCHANGED <<serial, twice, late>>
          /\ OthersSame(t) /\ Alike(t) /\ job'[t].pc = "wait"
      BY <2>5, OtherEffects DEF Unlist, history
    <3>2. /\ \A u \in Thread : /\ job'[u].uses = job[u].uses
                               /\ job'[u].peer = job[u].peer
          /\ \A u \in Thread : job'[u].pc \in Deleting => job[u].pc \in Deleting
          /\ Deletion(t) /\ job[t].pc \in Deleting
      BY <1>1, <3>1 DEF OthersSame, Alike, Deleting
    <3>3. ASSUME NEW v \in Thread \ {t}, job'[v].pc \in Deleting PROVE Deletion(v)'
      <4>1. job'[v] = job[v] /\ Deletion(v)
        BY <1>1, <3>1, <3>3 DEF OthersSame
      <4> QED
        BY <3>1, <3>2, <4>1 DEF Deletion, Holders
    <3>4. Deletion(t)'
      BY <3>1, <3>2 DEF Deletion
    <3> QED
      BY <3>3, <3>4 DEF DeletionInv
  <2>6. CASE WaitForOthers(t) \/ GiveUp(t)
    <3>1. /\ job[t].pc = "wait" /\ UNCHANGED <<byId, serial, twice>>
          /\ late \subseteq late'
          /\ job[t].peer \in late' \/ Holders(job[t].peer) \subseteq {t}
          /\ OthersSame(t) /\ Alike(t) /\ job'[t].pc = "purge"
      BY <2>6, OtherEffects DEF WaitForOthers, GiveUp, maps, history
    <3>2. /\ \A u \in Thread : /\ job'[u].uses = job[u].uses
                               /\ job'[u].peer = job[u].peer
          /\ \A u \in Thread : job'[u].pc \in Deleting => job[u].pc \in Deleting
          /\ Deletion(t) /\ job[t].pc \in Deleting
      BY <1>1, <3>1 DEF OthersSame, Alike, Deleting
    <3>3. ASSUME NEW v \in Thread \ {t}, job'[v].pc \in Deleting PROVE Deletion(v)'
      <4>1. job'[v] = job[v] /\ Deletion(v)
        BY <1>1, <3>1, <3>3 DEF OthersSame
      <4> QED
        BY <3>1, <3>2, <4>1 DEF Deletion, Holders
    <3>4. Deletion(t)'
      BY <3>1, <3>2 DEF Deletion, Holders
    <3> QED
      BY <3>3, <3>4 DEF DeletionInv
  <2>7. CASE Purge(t)
    <3>1. /\ UNCHANGED <<byId, serial, twice, late>>
          /\ OthersSame(t) /\ job'[t].pc \in {"idle", "unlock"}
          /\ job'[t].uses = {}
      BY <2>7, PurgeEffect DEF Purge, history
    <3>2. ASSUME NEW v \in Thread, job'[v].pc \in Deleting PROVE Deletion(v)'
      <4>1. /\ v # t /\ job'[v] = job[v] /\ Deletion(v)
            /\ \A u \in Thread : job'[u].pc \in Deleting => job'[u] = job[u]
            /\ \A u \in Thread : job'[u].uses \subseteq job[u].uses
        BY <1>1, <3>1, <3>2 DEF OthersSame, Deleting
      <4> QED
        BY <3>1, <4>1 DEF Deletion, Holders
    <3> QED
      BY <3>2 DEF DeletionInv
  <2> QED
    BY <1>4, <2>1, <2>2, <2>3, <2>4, <2>5, <2>6, <2>7 DEF Loud
<1> QED
  BY <1>2, <1>3, <1>4, Steps

LEMMA UseStep ==
  ASSUME TypeInv, JobInv, KnownInv, OwnerInv, DeletionInv, MapsInv, UseInv,
         [Next]_vars
  PROVE  UseInv'
<1> DEFINE Used(t) == \A p \in job[t].uses \ late :
                        \/ p \in stored
                        \/ job[t].peer = p /\ job[t].pc \in {"name", "save"}
                        \/ Draft(p)
<1>1. /\ \A t \in Thread : Used(t)
      /\ byAddress = byId /\ byId \subseteq stored
  BY DEF UseInv, MapsInv
<1>2. CASE Quiet
  <2>1. UNCHANGED <<stored, late>> /\ \A u \in Thread : Aside(u)
    BY <1>2 DEF Quiet
  <2>2. \A p : Draft(p) => Draft(p)'
    BY <2>1 DEF Aside, Draft, Owning
  <2>3. ASSUME NEW t \in Thread PROVE Used(t)'
    <3>1. CASE job'[t] = job[t]
      BY <1>1, <2>1, <2>2, <3>1
    <3>2. CASE /\ job[t].pc \notin {"name", "save"}
               /\ job'[t].uses \subseteq job[t].uses \cup byAddress
      BY <1>1, <2>1, <2>2, <3>2
    <3>3. CASE \E s \in Serial : bySerial[s] # None /\ job'[t].uses = {bySerial[s]}
      <4>1. PICK s \in Serial : bySerial[s] # None /\ job'[t].uses = {bySerial[s]}
        BY <3>3
      <4>2. bySerial[s] \in stored \/ Draft(bySerial[s])
        <5>1. CASE bySerial[s] \in byId
          BY <1>1, <5>1
        <5>2. CASE \E x \in Thread :
                     job[x].peer = bySerial[s] /\ job[x].pc \in {"save", "insert"}
          BY <5>2 DEF OwnerInv, Owner, Owning, Draft
        <5> QED
          BY <4>1, <5>1, <5>2 DEF MapsInv
      <4> QED
        BY <2>1, <2>2, <4>1, <4>2
    <3> QED
      BY <2>1, <3>1, <3>2, <3>3 DEF Aside, Owning
  <2> QED
    BY <2>3 DEF UseInv
<1>3. CASE Restart
  BY <1>3 DEF Restart, Idle, UseInv
<1>4. ASSUME NEW t \in Thread, Loud(t) PROVE UseInv'
  <2>0. ASSUME OthersAlike(t), stored \subseteq stored',
               job[t].pc = "save" => job[t].peer \in stored'
        PROVE  \A p : Draft(p) => Draft(p)' \/ p \in stored'
    BY <2>0 DEF OthersAlike, Alike, Draft
  <2>1. ASSUME OthersAlike(t), stored \subseteq stored', late \subseteq late', Used(t)',
               job[t].pc = "save" => job[t].peer \in stored'
        PROVE  UseInv'
    <3>1. \A u \in Thread \ {t} : Used(u)'
      BY <1>1, <2>0, <2>1 DEF OthersAlike, Alike
    <3> QED
      BY <2>1, <3>1 DEF UseInv
  <2>2. CASE ChooseSerial(t)
    <3>1. PICK p \in Peer :
            /\ job[t].pc = "serial" /\ job'[t].pc \in {"save", "name"}
            /\ job'[t].uses = job[t].uses \cup {p} /\ job'[t].peer = p
            /\ OthersSame(t) /\ UNCHANGED <<stored, late>>
      BY <2>2, ChooseEffect
    <3>2. Used(t)'
      BY <1>1, <2>0, <3>1, SameAlike
    <3> QED
      BY <2>1, <3>1, <3>2, SameAlike
  <2>3. CASE NamePeer(t) \/ SavePeer(t) \/ Unlist(t) \/ WaitForOthers(t) \/ GiveUp(t)
    <3>1. /\ stored \subseteq stored' /\ late \subseteq late'
          /\ SavePeer(t) => job[t].peer \in stored'
          /\ \/ NamePeer(t) /\ job[t].pc = "name"
             \/ SavePeer(t) /\ job[t].pc = "save"
             \/ job[t].pc \in {"unlist", "wait"}
      BY <2>3 DEF NamePeer, SavePeer, Unlist, WaitForOthers, GiveUp, maps, history
    <3>2. OthersAlike(t) /\ Alike(t) /\ (NamePeer(t) => job'[t].pc = "save")
      BY <2>3, OtherEffects, SameAlike
    <3>3. job[t].pc = "save" => job[t].peer \in stored'
      BY <3>1 DEF NamePeer
    <3>4. \A p : Draft(p) => Draft(p)' \/ p \in stored'
      BY <2>0, <3>1, <3>2, <3>3
    <3>5. Used(t)'
      BY <1>1, <3>1, <3>2, <3>4 DEF Alike
    <3> QED
      BY <2>1, <3>1, <3>2, <3>3, <3>5
  <2>4. CASE InsertPeer(t)
    <3>1. /\ UNCHANGED <<stored, late>> /\ job[t].pc = "insert"
          /\ OthersAlike(t) /\ Alike(t)
      BY <2>4, InsertEffect DEF InsertPeer
    <3>2. Used(t)'
      BY <1>1, <2>0, <3>1 DEF Alike
    <3> QED
      BY <2>1, <3>1, <3>2
  <2>5. CASE \E p \in Peer : Delete(t, p)
    <3>1. PICK p \in byId :
            /\ job'[t].uses \subseteq job[t].uses \cup {p} /\ OthersSame(t)
            /\ job[t].pc \notin {"name", "save"} /\ UNCHANGED <<stored, late>>
      BY <2>5 DEF Delete, OthersSame, Owning
    <3>2. Used(t)'
      BY <1>1, <2>0, <3>1, SameAlike
    <3> QED
      BY <2>1, <3>1, <3>2, SameAlike
  <2>6. CASE Purge(t)
    <3>1. /\ job[t].pc = "purge" /\ stored' = stored \ {job[t].peer}
          /\ OthersSame(t) /\ job'[t].uses = {} /\ late' = late
      BY <2>6, PurgeEffect DEF Purge, history
    <3>2. job[t].peer \in late \/ Holders(job[t].peer) \subseteq {t}
      BY <3>1 DEF DeletionInv, Deletion, Deleting
    <3>3. \A p : Draft(p) => Draft(p)'
      BY <3>1 DEF OthersSame, Draft
    <3>4. \A u \in Thread \ {t} : Used(u)'
      BY <1>1, <3>1, <3>2, <3>3 DEF OthersSame, Holders
    <3> QED
      BY <3>1, <3>4 DEF UseInv
  <2> QED
    BY <1>4, <2>2, <2>3, <2>4, <2>5, <2>6 DEF Loud
<1> QED
  BY <1>2, <1>3, <1>4, Steps
-----------------------------------------------------------------------------
(* Pairing.                                                                *)

(* One thread goes on; the others keep what they know.                     *)
LEMMA PairingOthers ==
  ASSUME PairingInv, NEW t \in Thread, OthersSame(t), Pairing(t)',
         UNCHANGED pairingMutex \/ pairingMutex = None \/ pairingMutex = t,
         byAddress = {} => byAddress' = {}
  PROVE  PairingInv'
<1>1. ASSUME NEW u \in Thread \ {t}, pairingMutex = u => pairingMutex' = u
      PROVE  Pairing(u)'
  BY <1>1 DEF PairingInv, Pairing, OthersSame
<1>2. ASSUME NEW u \in Thread \ {t} PROVE pairingMutex = u => pairingMutex' = u
  BY Numbers
<1> QED
  BY <1>1, <1>2 DEF PairingInv

LEMMA PairingReceiver ==
  ASSUME TypeInv, PairingInv, NEW x \in Receiver,
         \/ PacketReceived(x) \/ PacketHandled(x) \/ LockPairing(x)
         \/ UnlockPairing(x) \/ RefuseRequest(x) \/ TeachIn(x) \/ QueueAddress(x)
  PROVE  PairingInv'
<1> USE DEF maps, modeVars, history, Creating, Before
<1>1. x \in Thread /\ job[x] \in Job /\ Pairing(x)
  BY Numbers DEF TypeInv, PairingInv
<1>2. ASSUME NEW new, Do(x, new) PROVE OthersSame(x) /\ job'[x] = new
  BY <1>1, <1>2, DoJob DEF OthersSame
<1>3. ASSUME NEW new, Do(x, new), new.pc \in {"idle", "use", "lock", "unlock"},
             byAddress' = byAddress,
             UNCHANGED pairingMutex \/ pairingMutex = x
      PROVE  PairingInv'
  <2>1. Pairing(x)'
    BY <1>2, <1>3 DEF Pairing
  <2> QED
    BY <1>1, <1>2, <1>3, <2>1, PairingOthers
<1>4. CASE PacketReceived(x)
  <2>1. /\ [Idle EXCEPT !.pc = "use", !.uses = byAddress].pc = "use"
        /\ [Idle EXCEPT !.pc = "lock"].pc = "lock"
    BY DEF Idle
  <2> QED
    BY <1>3, <1>4, <2>1 DEF PacketReceived
<1>5. CASE PacketHandled(x)
  <2>1. [job[x] EXCEPT !.pc = "lock"].pc = "lock" /\ Idle.pc = "idle"
    BY <1>1 DEF Job, Idle
  <2> QED
    BY <1>3, <1>5, <2>1 DEF PacketHandled
<1>6. CASE LockPairing(x)
  <2>1. /\ [job[x] EXCEPT !.pc = "request"].pc = "request"
        /\ Do(x, [job[x] EXCEPT !.pc = "request"])
        /\ pairingMutex = None /\ pairingMutex' = x /\ byAddress' = byAddress
    BY <1>1, <1>6 DEF LockPairing, Job
  <2>2. job'[x].pc = "request" /\ OthersSame(x)
    BY <1>2, <2>1
  <2>3. Pairing(x)'
    BY <2>1, <2>2 DEF Pairing
  <2> QED
    BY <1>1, <2>1, <2>2, <2>3, PairingOthers
<1>7. CASE UnlockPairing(x)
  <2>1. Idle.pc = "idle"
    BY DEF Idle
  <2> QED
    BY <1>3, <1>7, <2>1 DEF UnlockPairing
<1>8. CASE RefuseRequest(x) \/ QueueAddress(x)
  <2>1. Handled(x).pc = "unlock"
    BY DEF Handled, Idle
  <2> QED
    BY <1>3, <1>8, <2>1 DEF RefuseRequest, QueueAddress, Enqueue
<1>9. CASE TeachIn(x)
  <2> DEFINE new == [job[x] EXCEPT !.pc = "serial", !.kind = "pair", !.seen = {}]
  <2>1. new.pc = "serial" /\ new.kind = "pair" /\ new.seen = {}
    BY <1>1 DEF Job
  <2>2. /\ Do(x, new) /\ UNCHANGED <<pairingMutex, byAddress>>
        /\ byAddress = {} /\ job[x].pc = "request"
    BY <1>9 DEF TeachIn
  <2> HIDE DEF new
  <2>3. job'[x] = new /\ OthersSame(x)
    BY <1>2, <2>2
  <2>4. Pairing(x)'
    BY <1>1, <2>1, <2>2, <2>3 DEF Pairing
  <2> QED
    BY <1>1, <2>2, <2>3, <2>4, PairingOthers
<1> QED
  BY <1>4, <1>5, <1>6, <1>7, <1>8, <1>9

LEMMA PairingMode ==
  ASSUME TypeInv, PairingInv, NEW r \in Rpc,
         \/ CreateDevice(r) \/ SetInstallMode(r) \/ CommissionByCode(r)
         \/ StartTimer(r)
  PROVE  PairingInv'
<1> USE DEF maps, modeVars, history, Creating, Before
<1>1. /\ r \in Thread /\ job[r] \in Job
      /\ Timer \in Thread /\ job[Timer] \in Job /\ Timer # r
  BY Numbers DEF TypeInv
<1>2. ASSUME NEW new, Do(r, new),
             \/ new.pc \in {"idle", "join"}
             \/ new.pc = "check" /\ new.kind = "commission"
             \/ new.pc = "serial" /\ new.kind = "create",
             UNCHANGED <<pairingMutex, byAddress>>
      PROVE  PairingInv'
  <2>1. OthersSame(r) /\ job'[r] = new
    BY <1>1, <1>2, DoJob DEF OthersSame
  <2>2. Pairing(r)'
    BY <1>2, <2>1 DEF Pairing
  <2> QED
    BY <1>1, <1>2, <2>1, <2>2, PairingOthers
<1>3. CASE CreateDevice(r) \/ SetInstallMode(r) \/ CommissionByCode(r)
  <2>1. /\ Idle.pc = "idle"
        /\ [Idle EXCEPT !.pc = "join"].pc = "join"
        /\ [Idle EXCEPT !.pc = "serial", !.kind = "create"].pc = "serial"
        /\ [Idle EXCEPT !.pc = "serial", !.kind = "create"].kind = "create"
        /\ [Idle EXCEPT !.pc = "check", !.kind = "commission"].pc = "check"
        /\ [Idle EXCEPT !.pc = "check", !.kind = "commission"].kind = "commission"
    BY DEF Idle
  <2> QED
    BY <1>2, <1>3, <2>1 DEF CreateDevice, SetInstallMode, CommissionByCode
<1>4. CASE StartTimer(r)
  <2>1. CASE Do(r, Idle)
    <3>1. Idle.pc = "idle"
      BY DEF Idle
    <3> QED
      BY <1>2, <1>4, <2>1, <3>1 DEF StartTimer
  <2>2. CASE job' = [job EXCEPT ![r] = Idle, ![Timer].pc = "tick",
                                ![Timer].ticks = MaxTicks]
    <3>1. /\ job'[r].pc = "idle" /\ job'[Timer].pc = "tick"
          /\ \A u \in Thread \ {r, Timer} : job'[u] = job[u]
      BY <1>1, <2>2 DEF TypeInv, Idle, Job
    <3>2. UNCHANGED <<pairingMutex, byAddress>>
      BY <1>4 DEF StartTimer
    <3>3. Pairing(r)' /\ Pairing(Timer)'
      BY <3>1 DEF Pairing
    <3>4. \A u \in Thread \ {r, Timer} : Pairing(u)'
      BY <3>1, <3>2 DEF PairingInv, Pairing
    <3> QED
      BY <3>3, <3>4 DEF PairingInv
  <2> QED
    BY <1>4, <2>1, <2>2 DEF StartTimer
<1> QED
  BY <1>3, <1>4

LEMMA PairingTimer ==
  ASSUME TypeInv, PairingInv, EndMode \/ HandleQueue
  PROVE  PairingInv'
<1> USE DEF maps, modeVars, history, Creating, Before
<1>1. Timer \in Thread /\ job[Timer] \in Job
  BY Numbers DEF TypeInv
<1>2. ASSUME NEW new, Do(Timer, new),
             \/ new.pc \in {"idle", "tick"}
             \/ new.pc = "check" /\ new.kind = "commission",
             UNCHANGED <<pairingMutex, byAddress>>
      PROVE  PairingInv'
  <2>1. OthersSame(Timer) /\ job'[Timer] = new
    BY <1>1, <1>2, DoJob DEF OthersSame
  <2>2. Pairing(Timer)'
    BY <1>2, <2>1 DEF Pairing
  <2> QED
    BY <1>1, <1>2, <2>1, <2>2, PairingOthers
<1>3. CASE EndMode
  <2>1. Idle.pc = "idle"
    BY DEF Idle
  <2> QED
    BY <1>2, <1>3, <2>1 DEF EndMode
<1>4. CASE HandleQueue
  <2> DEFINE w == job[Timer]
  <2>1. /\ w.pc = "tick" => [w EXCEPT !.ticks = @ - 1].pc = "tick"
        /\ [w EXCEPT !.pc = "check", !.kind = "commission",
                     !.ticks = @ - 1].pc = "check"
        /\ [w EXCEPT !.pc = "check", !.kind = "commission",
                     !.ticks = @ - 1].kind = "commission"
    BY <1>1 DEF Job
  <2> QED
    BY <1>2, <1>4, <2>1 DEF HandleQueue
<1> QED
  BY <1>3, <1>4

LEMMA PairingCreation ==
  ASSUME TypeInv, JobInv, PairingInv, NEW t \in Thread,
         \/ CreateNothing(t) \/ CheckDevice(t) \/ Session(t) \/ ChooseSerial(t)
         \/ NamePeer(t) \/ SavePeer(t) \/ FinishPeer(t)
  PROVE  PairingInv'
<1> USE DEF maps, modeVars, history, Creating, Before
<1> DEFINE w == job[t]
<1>1. w \in Job /\ Pairing(t)
  BY DEF TypeInv, PairingInv
<1>2. ASSUME OthersSame(t), Pairing(t)', UNCHANGED <<pairingMutex, byAddress>>
      PROVE  PairingInv'
  BY <1>2, PairingOthers
<1>3. ASSUME NEW new, Do(t, new) PROVE OthersSame(t) /\ job'[t] = new
  BY <1>3, DoJob DEF OthersSame
<1>4. CASE CreateNothing(t)
  <2>1. /\ Handled(t).pc = "unlock"
        /\ [w EXCEPT !.pc = "finish"].pc = "finish"
        /\ [w EXCEPT !.pc = "finish"].kind = w.kind
    BY <1>1 DEF Handled, Idle, Job
  <2>2. /\ w.pc = "serial" /\ UNCHANGED <<pairingMutex, byAddress>>
        /\ \/ Do(t, Handled(t))
           \/ w.kind # "pair" /\ Do(t, [w EXCEPT !.pc = "finish"])
    BY <1>4 DEF CreateNothing
  <2>3. CASE Do(t, Handled(t))
    BY <1>2, <1>3, <2>1, <2>2, <2>3 DEF Pairing
  <2>4. CASE w.kind # "pair" /\ Do(t, [w EXCEPT !.pc = "finish"])
    <3>1. /\ OthersSame(t) /\ job'[t].pc = "finish" /\ job'[t].kind = w.kind
      BY <1>3, <2>1, <2>4
    <3>2. Pairing(t)'
      BY <1>1, <2>2, <2>4, <3>1 DEF Pairing
    <3> QED
      BY <1>2, <2>2, <3>1, <3>2
  <2> QED
    BY <2>2, <2>3, <2>4
<1>5. CASE CheckDevice(t) \/ Session(t)
  <2> DEFINE Fields(new, place, seen) ==
        new.pc = place /\ new.kind = w.kind /\ new.seen = seen
  <2>1. /\ Fields([w EXCEPT !.pc = "finish"], "finish", w.seen)
        /\ Fields([w EXCEPT !.pc = "session", !.seen = {}], "session", {})
        /\ Fields([w EXCEPT !.pc = "serial"], "serial", w.seen)
    BY <1>1 DEF Job
  <2>2. /\ w.pc \in {"check", "session"} /\ UNCHANGED <<pairingMutex, byAddress>>
        /\ \/ Do(t, [w EXCEPT !.pc = "finish"])
           \/ byAddress = {} /\ Do(t, [w EXCEPT !.pc = "session", !.seen = {}])
           \/ w.pc = "session" /\ Do(t, [w EXCEPT !.pc = "serial"])
    BY <1>5 DEF CheckDevice, Session
  <2>3. CASE Do(t, [w EXCEPT !.pc = "finish"])
    <3>1. OthersSame(t) /\ Fields(job'[t], "finish", w.seen)
      BY <1>3, <2>1, <2>3
    <3>2. Pairing(t)'
      BY <1>1, <2>2, <3>1 DEF Pairing
    <3> QED
      BY <1>2, <2>2, <3>1, <3>2
  <2>4. CASE byAddress = {} /\ Do(t, [w EXCEPT !.pc = "session", !.seen = {}])
    <3>1. OthersSame(t) /\ Fields(job'[t], "session", {})
      BY <1>3, <2>1, <2>4
    <3>2. Pairing(t)'
      BY <1>1, <2>2, <2>4, <3>1 DEF Pairing
    <3> QED
      BY <1>2, <2>2, <3>1, <3>2
  <2>5. CASE w.pc = "session" /\ Do(t, [w EXCEPT !.pc = "serial"])
    <3>1. OthersSame(t) /\ Fields(job'[t], "serial", w.seen)
      BY <1>3, <2>1, <2>5
    <3>2. Pairing(t)'
      BY <1>1, <2>2, <2>5, <3>1 DEF Pairing
    <3> QED
      BY <1>2, <2>2, <3>1, <3>2
  <2> QED
    BY <2>2, <2>3, <2>4, <2>5
<1>6. CASE ChooseSerial(t)
  <2>1. /\ w.pc = "serial" /\ job'[t].pc \in {"save", "name"}
        /\ job'[t].kind = w.kind /\ job'[t].seen = w.seen
        /\ OthersSame(t) /\ UNCHANGED <<byAddress, pairingMutex>>
    BY <1>6, ChooseEffect DEF ChooseSerial
  <2>2. Pairing(t)'
    BY <1>1, <2>1 DEF Pairing
  <2> QED
    BY <1>2, <2>1, <2>2
<1>7. CASE NamePeer(t) \/ SavePeer(t)
  <2>1. /\ w.pc \in {"name", "save"} /\ job'[t].pc \in {"save", "insert"}
        /\ Alike(t) /\ job'[t].seen = w.seen
        /\ OthersSame(t) /\ UNCHANGED <<byAddress, pairingMutex>>
    BY <1>7, OtherEffects DEF NamePeer, SavePeer
  <2>2. Pairing(t)'
    BY <1>1, <2>1 DEF Pairing, Alike
  <2> QED
    BY <1>2, <2>1, <2>2
<1>8. CASE FinishPeer(t)
  <2>1. UNCHANGED <<byAddress, pairingMutex>>
    BY <1>8 DEF FinishPeer
  <2>2. \E new : Do(t, new) /\ new.pc \in {"idle", "tick", "unlock", "unlist"}
    <3>1. /\ Handled(t).pc = "unlock"
          /\ [Idle EXCEPT !.pc = "unlist", !.peer = w.peer,
                          !.uses = w.uses].pc = "unlist"
          /\ [Idle EXCEPT !.pc = IF t = Timer THEN "tick" ELSE "idle",
                          !.ticks = w.ticks].pc \in {"tick", "idle"}
      BY DEF Handled, Idle
    <3> QED
      BY <1>8, <3>1 DEF FinishPeer
  <2>3. OthersSame(t) /\ job'[t].pc \in {"idle", "tick", "unlock", "unlist"}
    BY <1>3, <2>2
  <2>4. Pairing(t)'
    BY <2>3 DEF Pairing
  <2> QED
    BY <1>2, <2>1, <2>3, <2>4
<1> QED
  BY <1>4, <1>5, <1>6, <1>7, <1>8

LEMMA PairingInsert ==
  ASSUME TypeInv, PairingInv, NEW t \in Thread, InsertPeer(t)
  PROVE  PairingInv'
<1> USE DEF Creating, Before
<1>1. /\ job[t].pc = "insert" /\ job'[t].pc = "finish" /\ Alike(t) /\ OthersAlike(t)
      /\ \A u \in Thread \ {t} : job[u].pc \in Before =>
           job'[u].seen = job[u].seen \cup {job[t].kind}
      /\ UNCHANGED pairingMutex
  BY InsertEffect DEF InsertPeer
<1>2. Pairing(t)'
  BY <1>1 DEF PairingInv, Pairing, Alike
<1>3. ASSUME NEW u \in Thread \ {t} PROVE Pairing(u)'
  <2>1. job'[u].pc = job[u].pc /\ Alike(u) /\ Pairing(u) /\ Pairing(t)
    BY <1>1 DEF OthersAlike, PairingInv
  <2>2. job[u].pc \in Creating /\ job[u].kind = "pair" => job[t].kind # "pair"
    BY <1>1, <2>1 DEF Pairing
  <2> QED
    BY <1>1, <2>1, <2>2 DEF Pairing, Alike
<1> QED
  BY <1>2, <1>3 DEF PairingInv

LEMMA PairingStep ==
  ASSUME TypeInv, JobInv, PairingInv, [Next]_vars
  PROVE  PairingInv'
<1> USE DEF maps, modeVars, history, Creating, Before
<1>1. ASSUME NEW t \in Thread,
             Unlist(t) \/ WaitForOthers(t) \/ GiveUp(t) \/ Purge(t)
      PROVE  PairingInv'
  <2>1. /\ UNCHANGED pairingMutex /\ byAddress' \subseteq byAddress
        /\ OthersSame(t) /\ job'[t].pc \in {"wait", "purge", "idle", "unlock"}
    BY <1>1, OtherEffects, PurgeEffect DEF Unlist, WaitForOthers, GiveUp, Purge
  <2>2. Pairing(t)'
    BY <2>1 DEF Pairing
  <2> QED
    BY <2>1, <2>2, PairingOthers
<1>2. ASSUME NEW r \in Rpc, DeletePeer(r) \/ LookUpSerial(r) \/ DeleteFound(r)
      PROVE  PairingInv'
  <2>1. PICK new : Do(r, new) /\ new.pc \in {"unlist", "lookup", "idle"}
    <3>1. Idle.pc = "idle"
      BY DEF Idle
    <3>2. CASE DeletePeer(r) \/ DeleteFound(r)
      <4>1. CASE \E p : BeginDeletion(r, p)
        <5>1. PICK p : BeginDeletion(r, p)
          BY <4>1
        <5>2. [Idle EXCEPT !.pc = "unlist", !.peer = p, !.uses = {p}].pc = "unlist"
          BY DEF Idle
        <5> QED
          BY <5>1, <5>2 DEF BeginDeletion
      <4>2. CASE Do(r, Idle)
        BY <3>1, <4>2
      <4> QED
        BY <3>2, <4>1, <4>2 DEF DeletePeer, DeleteFound
    <3>3. CASE LookUpSerial(r)
      <4>1. PICK s \in Serial :
              Do(r, [Idle EXCEPT !.pc = "lookup", !.uses = {bySerial[s]}])
        BY <3>3 DEF LookUpSerial
      <4>2. [Idle EXCEPT !.pc = "lookup", !.uses = {bySerial[s]}].pc = "lookup"
        BY DEF Idle
      <4> QED
        BY <4>1, <4>2
    <3> QED
      BY <1>2, <3>2, <3>3
  <2>2. /\ r \in Thread /\ UNCHANGED <<pairingMutex, byAddress>>
        /\ OthersSame(r) /\ job'[r].pc \in {"unlist", "lookup", "idle"}
    <3>1. UNCHANGED <<pairingMutex, byAddress>>
      BY <1>2 DEF DeletePeer, LookUpSerial, DeleteFound
    <3> QED
      BY <2>1, <3>1, Numbers, DoJob DEF OthersSame
  <2>3. Pairing(r)'
    BY <2>2 DEF Pairing
  <2> QED
    BY <2>2, <2>3, PairingOthers
<1>3. ASSUME NEW t \in Thread, Step(t) PROVE PairingInv'
  <2>1. CASE t = Timer /\ (EndMode \/ HandleQueue)
    BY <2>1, PairingTimer
  <2>2. CASE t \in Rpc /\ StartTimer(t)
    BY <2>2, PairingMode
  <2>3. CASE t \in Receiver /\ (\/ PacketHandled(t) \/ LockPairing(t)
                               \/ UnlockPairing(t) \/ RefuseRequest(t)
                               \/ TeachIn(t) \/ QueueAddress(t))
    BY <2>3, PairingReceiver
  <2>4. CASE \/ CreateNothing(t) \/ CheckDevice(t) \/ Session(t) \/ ChooseSerial(t)
             \/ NamePeer(t) \/ SavePeer(t) \/ FinishPeer(t)
    BY <2>4, PairingCreation
  <2> QED
    BY <1>1, <1>2, <1>3, <2>1, <2>2, <2>3, <2>4, PairingInsert DEF Step
<1>4. CASE Restart
  <2>1. \A u \in Thread : job'[u].pc = "idle"
    BY <1>4 DEF Restart, Idle
  <2> QED
    BY <2>1 DEF PairingInv, Pairing
<1>5. CASE UNCHANGED vars
  BY <1>5 DEF vars, PairingInv, Pairing
<1>6. ASSUME NEW r \in Rpc, CreateDevice(r) \/ SetInstallMode(r) \/ CommissionByCode(r)
      PROVE  PairingInv'
  BY <1>6, PairingMode
<1>7. ASSUME NEW x \in Receiver, PacketReceived(x) PROVE PairingInv'
  BY <1>7, PairingReceiver
<1> QED
  BY <1>2, <1>3, <1>4, <1>5, <1>6, <1>7 DEF Next

LEMMA PairedStep ==
  ASSUME TypeInv, JobInv, MapsInv, PairingInv, PairedOnce, [Next]_vars
  PROVE  PairedOnce'
<1>1. CASE byAddress' \subseteq byAddress /\ rivals \subseteq rivals'
  BY <1>1 DEF PairedOnce
<1>2. ASSUME NEW t \in Thread, InsertPeer(t) PROVE PairedOnce'
  <2> DEFINE w == job[t]
  <2>1. /\ w.pc = "insert" /\ byAddress' = byAddress \cup {w.peer}
        /\ rivals' = IF w.kind = "create" \/ \E k \in w.seen : {k, w.kind} # {"pair"}
                     THEN rivals \cup {w.peer} ELSE rivals
    BY <1>2 DEF InsertPeer
  <2>2. Pairing(t) /\ w.kind \in {"pair", "commission", "create"}
    BY <2>1 DEF PairingInv, Pairing, Creating
  <2>3. CASE rivals' = rivals \cup {w.peer}
    BY <2>1, <2>3 DEF PairedOnce
  <2>4. CASE w.kind # "create" /\ \A k \in w.seen : {k, w.kind} = {"pair"}
    <3>1. w.seen = {}
      <4>1. ASSUME NEW k \in w.seen PROVE FALSE
        <5>1. {k, w.kind} = {"pair"}
          BY <2>4
        <5>2. k = "pair" /\ w.kind = "pair"
          BY <5>1
        <5> QED
          BY <2>1, <2>2, <5>2 DEF Pairing, Before
      <4> QED
        BY <4>1
    <3>2. byAddress = {}
      BY <2>1, <2>2, <2>4, <3>1 DEF Pairing, Before
    <3> QED
      BY <2>1, <3>2 DEF PairedOnce
  <2> QED
    BY <2>1, <2>3, <2>4
<1>3. CASE Restart
  <2>1. /\ byAddress' = stored /\ rivals \subseteq rivals'
        /\ \A t \in Thread : job[t].peer # None => job[t].peer \in rivals'
    BY <1>3 DEF Restart
  <2>2. \A p \in stored \ byAddress : p \in rivals'
    <3> SUFFICES ASSUME NEW p \in stored, p \notin byAddress PROVE p \in rivals'
      OBVIOUS
    <3>1. PICK t \in Thread : job[t].peer = p
      BY DEF MapsInv
    <3>2. p # None
      BY KnownPeers, Numbers DEF TypeInv, TypeOK
    <3> QED
      BY <2>1, <3>1, <3>2
  <2> QED
    BY <2>1, <2>2 DEF PairedOnce
<1>4. \/ byAddress' \subseteq byAddress /\ rivals \subseteq rivals'
      \/ \E t \in Thread : InsertPeer(t)
      \/ Restart
  <2>1. Quiet => byAddress' \subseteq byAddress /\ rivals \subseteq rivals'
    BY DEF Quiet
  <2>2. ASSUME NEW t \in Thread, Loud(t)
        PROVE  \/ byAddress' \subseteq byAddress /\ rivals \subseteq rivals'
               \/ InsertPeer(t)
    BY <2>2 DEF Loud, ChooseSerial, NamePeer, SavePeer, Delete, Unlist,
                WaitForOthers, GiveUp, Purge, maps, history
  <2> QED
    BY <2>1, <2>2, Steps
<1> QED
  BY <1>1, <1>2, <1>3, <1>4
-----------------------------------------------------------------------------
(* The invariant.                                                          *)

LEMMA InitIInv ==
  ASSUME Init
  PROVE  IInv
<1>1. \A t \in Thread : /\ job[t] = Idle /\ job[t].pc = "idle" /\ job[t].uses = {}
                        /\ job[t].peer = None /\ job[t].serial = 0
                        /\ job[t].ticks = 0
  BY DEF Init, Idle
<1>2. TypeInv
  <2>1. job \in [Thread -> Job]
    BY IdleIsJob DEF Init
  <2>2. TypeOK
    <3>1. \A t \in Thread :
            /\ job[t].pc \in Creating \cup Deleting \cup
                 {"idle", "use", "lock", "request", "unlock", "check",
                  "session", "join", "tick", "lookup"}
            /\ job[t].peer \in Peer \cup {None}
            /\ job[t].serial \in Serial
            /\ job[t].uses \subseteq Peer
            /\ job[t].ticks \in 0..MaxTicks
      BY <2>1 DEF Job
    <3>2. 0 \in 0..MaxPeers /\ 0 \in 0..MaxModes /\ 0 \in Serial
      BY RegistryAssumption DEF Serial
    <3>3. /\ bySerial \in [Serial -> Peer \cup {None}]
          /\ {byId, byAddress, stored, rivals, late} \subseteq SUBSET Peer
          /\ serial \in [Peer -> Serial]
          /\ created \in 0..MaxPeers /\ queue \in 0..MaxModes
          /\ twice \subseteq Serial
      BY <3>2 DEF Init
    <3>4. /\ {pairing, teachIn, stop, processed} \subseteq BOOLEAN
          /\ pairingMutex \in Receiver \cup {None}
          /\ modeMutex \in Rpc \cup {None}
      BY DEF Init
    <3> QED
      BY <3>1, <3>3, <3>4 DEF TypeOK
  <2> QED
    BY <2>1, <2>2 DEF TypeInv
<1>3. JobInv /\ OwnerInv /\ DeletionInv /\ PairingInv /\ UseInv
  BY <1>1 DEF JobInv, OwnerInv, DeletionInv, PairingInv, Pairing, UseInv,
              Owning, Creating, Deleting, Before
<1>4. KnownInv /\ MapsInv /\ PairedOnce
  BY DEF Init, KnownInv, MapsInv, PairedOnce
<1>5. ModeInv
  <2>1. /\ budget = [modes |-> MaxModes, calls |-> MaxCalls,
                     restarts |-> MaxRestarts]
        /\ queue = 0 /\ Pending = 0
    BY DEF Init, Pending
  <2> QED
    BY <1>1, <2>1, RegistryAssumption DEF ModeInv
<1> QED
  BY <1>2, <1>3, <1>4, <1>5 DEF IInv

LEMMA NextIInv ==
  ASSUME IInv, [Next]_vars
  PROVE  IInv'
  BY TypeStep, JobStep, KnownStep, ModeStep, PairingStep, OwnerStep,
     DeletionStep, MapsStep, PairedStep, UseStep DEF IInv

LEMMA Agreement ==
  ASSUME IInv
  PROVE  MapsAgree
<1>1. bySerial \in [Serial -> Peer \cup {None}]
  BY DEF IInv, TypeInv, TypeOK
<1> QED
  BY <1>1 DEF IInv, MapsInv, MapsAgree

LEMMA InUse ==
  ASSUME IInv
  PROVE  InUseIsStored
  BY DEF IInv, UseInv, Draft, InUseIsStored

(* The invariant, for any number of threads and peers: a creation owns its *)
(* peer from getFreeSerialNumber until it is inserted, a peer a deletion   *)
(* took out stays out, and who pairs knows what was inserted meanwhile.    *)
THEOREM Invariance == Spec => []IInv
<1>1. Init => IInv
  BY InitIInv
<1>2. IInv /\ [Next]_vars => IInv'
  BY NextIInv
<1> QED
  BY <1>1, <1>2, PTL DEF Spec

(* The variables of EnOceanCentral keep their types, and the queue of      *)
(* remote commissioning gets one address in a pairing mode.                *)
THEOREM TypeInvariant == Spec => []TypeOK
<1>1. IInv => TypeOK
  BY DEF IInv, TypeInv
<1> QED
  BY <1>1, Invariance, PTL

(* _peers, _peersById, _peersBySerial and the database agree while peers   *)
(* are created by pairing, commissioning and calls, deleted and loaded.    *)
THEOREM Agree == Spec => []MapsAgree
<1>1. IInv => MapsAgree
  BY Agreement
<1> QED
  BY <1>1, Invariance, PTL

(* The mutex of the pairing and the second look for the device make one    *)
(* peer of it, over any number of telegrams, interfaces and restarts.      *)
THEOREM Once == Spec => []PairedOnce
<1>1. IInv => PairedOnce
  BY DEF IInv
<1> QED
  BY <1>1, Invariance, PTL

(* deletePeer removes no peer from the database that another thread works  *)
(* with, unless it waited a minute.                                        *)
THEOREM Stored == Spec => []InUseIsStored
<1>1. IInv => InUseIsStored
  BY InUse
<1> QED
  BY <1>1, Invariance, PTL
-----------------------------------------------------------------------------
(* The life of a peer, seen from outside.                                  *)

SamePlaces(p) ==
  /\ AtPlace(p, {"insert"})' <=> AtPlace(p, {"insert"})
  /\ AtPlace(p, {"name", "save"})' <=> AtPlace(p, {"name", "save"})

LEMMA LifeStays ==
  ASSUME NEW p \in Peer, SamePlaces(p), p > created' <=> p > created,
         p \in byId' <=> p \in byId, p \in stored' <=> p \in stored
  PROVE  LifeOf(p)' = LifeOf(p)
  BY DEF LifeOf, SamePlaces

LEMMA OneLife ==
  ASSUME NEW p \in Peer, NEW from, NEW to, LifeOf(p) = from, LifeOf(p)' = to,
         \A q \in Peer \ {p} : LifeOf(q)' = LifeOf(q)
  PROVE  Life!Become(p, from, to)
<1>1. /\ Lives = [q \in Peer |-> LifeOf(q)]
      /\ Lives' = [q \in Peer |-> LifeOf(q)']
  BY DEF Lives
<1> HIDE DEF Lives
<1> QED
  BY <1>1 DEF Life!Become

(* Where others are does not matter to the life of a peer of one thread.   *)
LEMMA PlacesOfOthers ==
  ASSUME NEW t \in Thread, OthersAlike(t), NEW p, job[t].peer # p,
         job'[t].peer # p
  PROVE  SamePlaces(p)
  BY DEF SamePlaces, AtPlace, OthersAlike, Alike

LEMMA SamePlacesOfOne ==
  ASSUME NEW t \in Thread, OthersAlike(t), job'[t].peer = job[t].peer,
         job[t].pc \in {"name", "save"} <=> job'[t].pc \in {"name", "save"},
         job[t].pc = "insert" <=> job'[t].pc = "insert", NEW p
  PROVE  SamePlaces(p)
  BY DEF SamePlaces, AtPlace, OthersAlike, Alike

(* A peer that a deletion took out is not being created, and no peer is    *)
(* created by two threads.                                                 *)
LEMMA SolePlace ==
  ASSUME IInv, NEW t \in Thread, NEW u \in Thread,
         job[t].pc \in Owning \cup Deleting, job[u].peer = job[t].peer,
         job[u].pc \in Owning
  PROVE  u = t
  BY DEF IInv, OwnerInv, Owner

LEMMA CreatedNumbers ==
  ASSUME IInv, NEW p \in Peer
  PROVE  p > created <=> p \notin Known
<1>1. created \in Nat /\ p \in Nat \ {0}
  BY RegistryAssumption DEF IInv, TypeInv, TypeOK, Peer
<1> QED
  BY <1>1 DEF Known

LEMMA QuietLives ==
  ASSUME IInv, Quiet
  PROVE  Lives' = Lives
<1>1. ASSUME NEW p \in Peer PROVE SamePlaces(p)
  BY DEF Quiet, Aside, SamePlaces, AtPlace, Owning, Deleting
<1>2. \A p \in Peer : LifeOf(p)' = LifeOf(p)
  BY <1>1, LifeStays DEF Quiet
<1> QED
  BY <1>2 DEF Lives

LEMMA BuildLife ==
  ASSUME IInv, NEW t \in Thread, ChooseSerial(t)
  PROVE  \E p \in Peer : Life!Build(p)
<1>0. PICK p : p = created + 1
  OBVIOUS
<1>1. /\ job[t].pc = "serial" /\ job[t].peer = None
      /\ p \in Peer /\ p \notin Known /\ created' = p
      /\ Known' = Known \cup {p}
      /\ job'[t].pc \in {"save", "name"} /\ job'[t].peer = p
      /\ OthersSame(t)
      /\ UNCHANGED <<byId, stored>>
  BY <1>0, ChooseEffect DEF IInv
<1>2. created \in Nat
  BY RegistryAssumption DEF IInv, TypeInv, TypeOK
<1>3. p \notin byId /\ p \notin stored
  BY <1>0, <1>1 DEF IInv, KnownInv
<1>4. LifeOf(p) = "new"
  BY <1>0, <1>1, <1>2 DEF LifeOf
<1>5. LifeOf(p)' = "draft"
  <2>1. AtPlace(p, {"name", "save"})'
    BY <1>0, <1>1 DEF AtPlace
  <2>2. ~(p > created')
    BY <1>0, <1>1, <1>2
  <2> QED
    BY <1>0, <1>1, <1>3, <2>1, <2>2 DEF LifeOf
<1>6. ASSUME NEW q \in Peer \ {p} PROVE LifeOf(q)' = LifeOf(q)
  <2>1. SamePlaces(q)
    BY <1>0, <1>1, Numbers, PlacesOfOthers, SameAlike
  <2>2. q > created' <=> q > created
    BY <1>0, <1>1, <1>2 DEF Peer
  <2> QED
    BY <1>0, <1>1, <2>1, <2>2, LifeStays
<1>7. Life!Become(p, "new", "draft")
  BY <1>0, <1>1, <1>4, <1>5, <1>6, OneLife
<1> QED
  BY <1>0, <1>1, <1>7 DEF Life!Build

LEMMA SaveLife ==
  ASSUME IInv, NEW t \in Thread, SavePeer(t)
  PROVE  \E p \in Peer : Life!Save(p)
<1>0. PICK p : p = job[t].peer
  OBVIOUS
<1>1. /\ job[t].pc = "save" /\ job'[t].pc = "insert" /\ job'[t].peer = p
      /\ OthersSame(t)
      /\ stored' = stored \cup {p}
      /\ UNCHANGED <<byId, created>>
  BY <1>0, OtherEffects DEF IInv, SavePeer, Alike
<1>2. p \in Known /\ p \in Peer /\ p \notin byId
  BY <1>0, <1>1, KnownPeers DEF IInv, JobInv, OwnerInv, Owner, Owning
<1>3. p \notin stored
  BY <1>0, <1>1, <1>2 DEF IInv, MapsInv, OwnerInv, Owner, Owning
<1>4. ~(p > created)
  BY <1>2, CreatedNumbers
<1>5. LifeOf(p) = "draft"
  BY <1>0, <1>1, <1>2, <1>3, <1>4 DEF LifeOf, AtPlace
<1>6. LifeOf(p)' = "saved"
  <2>1. AtPlace(p, {"insert"})'
    BY <1>0, <1>1 DEF AtPlace
  <2> QED
    BY <1>0, <1>1, <1>2, <1>4, <2>1 DEF LifeOf
<1>7. ASSUME NEW q \in Peer \ {p} PROVE LifeOf(q)' = LifeOf(q)
  BY <1>0, <1>1, PlacesOfOthers, SameAlike, LifeStays
<1>8. Life!Become(p, "draft", "saved")
  BY <1>2, <1>5, <1>6, <1>7, OneLife
<1> QED
  BY <1>2, <1>8 DEF Life!Save

LEMMA InsertLife ==
  ASSUME IInv, NEW t \in Thread, InsertPeer(t)
  PROVE  \E p \in Peer : Life!Insert(p)
<1>0. PICK p : p = job[t].peer
  OBVIOUS
<1>1. /\ job[t].pc = "insert" /\ job'[t].peer = p
      /\ OthersAlike(t)
      /\ byId' = byId \cup {p}
      /\ UNCHANGED <<stored, created>>
  BY <1>0, InsertEffect DEF IInv, InsertPeer, Alike
<1>2. p \in Known /\ p \in Peer /\ p \notin byId /\ p \in stored
  BY <1>0, <1>1, KnownPeers DEF IInv, JobInv, OwnerInv, Owner, Owning
<1>3. ~(p > created)
  BY <1>2, CreatedNumbers
<1>4. LifeOf(p) = "saved"
  BY <1>0, <1>1, <1>2, <1>3 DEF LifeOf, AtPlace
<1>5. LifeOf(p)' = "known"
  BY <1>0, <1>1, <1>3 DEF LifeOf
<1>6. ASSUME NEW q \in Peer \ {p} PROVE LifeOf(q)' = LifeOf(q)
  BY <1>0, <1>1, PlacesOfOthers, LifeStays
<1>7. Life!Become(p, "saved", "known")
  BY <1>2, <1>4, <1>5, <1>6, OneLife
<1> QED
  BY <1>2, <1>7 DEF Life!Insert

(* A second deletion of a peer that is taken out already changes nothing.  *)
LEMMA RemoveLife ==
  ASSUME IInv, NEW t \in Thread, Unlist(t)
  PROVE  Lives' = Lives \/ \E p \in Peer : Life!Remove(p)
<1>0. PICK p : p = job[t].peer
  OBVIOUS
<1>1. /\ job[t].pc = "unlist" /\ job'[t].pc = "wait" /\ job'[t].peer = p
      /\ OthersSame(t)
      /\ byId' = byId \ {p}
      /\ UNCHANGED <<stored, created>>
  BY <1>0, OtherEffects DEF IInv, Unlist, Alike
<1>2. p \in Known /\ p \in Peer
  BY <1>0, <1>1, KnownPeers DEF IInv, JobInv, Deleting
<1>3. ~(p > created)
  BY <1>2, CreatedNumbers
<1>4. \A q \in Peer : SamePlaces(q)
  BY <1>0, <1>1, SamePlacesOfOne, SameAlike
<1>5. ASSUME NEW q \in Peer \ {p} PROVE LifeOf(q)' = LifeOf(q)
  BY <1>0, <1>1, <1>4, LifeStays
<1>6. CASE p \in byId
  <2>1. LifeOf(p) = "known"
    BY <1>3, <1>6 DEF LifeOf
  <2>2. p \in stored /\ ~AtPlace(p, {"insert"})
    BY <1>0, <1>1, <1>6, SolePlace DEF IInv, MapsInv, AtPlace, Owning, Deleting
  <2>3. LifeOf(p)' = "leaving"
    BY <1>0, <1>1, <1>2, <1>3, <1>4, <2>2 DEF LifeOf, SamePlaces
  <2>4. Life!Become(p, "known", "leaving")
    BY <1>2, <1>5, <2>1, <2>3, OneLife
  <2> QED
    BY <1>2, <2>4 DEF Life!Remove
<1>7. CASE p \notin byId
  <2>1. \A q \in Peer : LifeOf(q)' = LifeOf(q)
    BY <1>0, <1>1, <1>4, <1>7, LifeStays
  <2> QED
    BY <2>1 DEF Lives
<1> QED
  BY <1>6, <1>7

LEMMA DeleteLife ==
  ASSUME IInv, NEW t \in Thread, Purge(t)
  PROVE  Lives' = Lives \/ \E p \in Peer : Life!Delete(p)
<1>0. PICK p : p = job[t].peer
  OBVIOUS
<1>1. /\ job[t].pc = "purge" /\ stored' = stored \ {p}
      /\ job'[t].pc \in {"idle", "unlock"} /\ job'[t].peer = None
      /\ OthersSame(t)
      /\ UNCHANGED <<byId, created>>
  BY <1>0, PurgeEffect DEF IInv, Purge
<1>2. p \in Known /\ p \in Peer /\ p \notin byId
  BY <1>0, <1>1, KnownPeers DEF IInv, JobInv, DeletionInv, Deletion, Deleting
<1>3. ~(p > created)
  BY <1>2, CreatedNumbers
<1>4. \A u \in Thread : job[u].peer = p => job[u].pc \notin Owning
  BY <1>0, <1>1, SolePlace DEF Deleting, Owning
<1>5. /\ ~AtPlace(p, {"insert"}) /\ ~AtPlace(p, {"name", "save"})
      /\ ~AtPlace(p, {"insert"})' /\ ~AtPlace(p, {"name", "save"})'
  BY <1>0, <1>1, <1>4 DEF AtPlace, OthersSame, Owning
<1>6. ASSUME NEW q \in Peer \ {p} PROVE LifeOf(q)' = LifeOf(q)
  BY <1>0, <1>1, Numbers, PlacesOfOthers, SameAlike, LifeStays
<1>7. LifeOf(p)' = "gone"
  BY <1>0, <1>1, <1>2, <1>3, <1>5 DEF LifeOf
<1>8. CASE p \in stored
  <2>1. LifeOf(p) = "leaving"
    BY <1>2, <1>3, <1>5, <1>8 DEF LifeOf
  <2>2. Life!Become(p, "leaving", "gone")
    BY <1>2, <1>6, <1>7, <2>1, OneLife
  <2> QED
    BY <1>2, <2>2 DEF Life!Delete
<1>9. CASE p \notin stored
  <2>1. LifeOf(p) = "gone"
    BY <1>2, <1>3, <1>5, <1>9 DEF LifeOf
  <2>2. \A q \in Peer : LifeOf(q)' = LifeOf(q)
    BY <1>6, <1>7, <2>1
  <2> QED
    BY <2>2 DEF Lives
<1> QED
  BY <1>8, <1>9

LEMMA ReloadLife ==
  ASSUME IInv, Restart
  PROVE  Life!LoadPeers
<1>1. /\ byId' = stored /\ UNCHANGED <<stored, created>>
      /\ \A t \in Thread : job'[t].pc = "idle"
  BY DEF Restart, Idle
<1>2. byId \subseteq stored
  BY DEF IInv, MapsInv
<1>3. ASSUME NEW p \in Peer
      PROVE  LifeOf(p)' = IF LifeOf(p) \in Life!InDatabase THEN "known"
                          ELSE IF LifeOf(p) = "draft" THEN "gone" ELSE LifeOf(p)
  <2>1. ~AtPlace(p, {"insert"})' /\ ~AtPlace(p, {"name", "save"})'
    BY <1>1 DEF AtPlace
  <2>2. LifeOf(p)' = IF p > created THEN "new"
                     ELSE IF p \in stored THEN "known" ELSE "gone"
    BY <1>1, <2>1 DEF LifeOf
  <2> QED
    BY <1>2, <2>2 DEF LifeOf, Life!InDatabase
<1>4. /\ \A p \in Peer : Lives[p] = LifeOf(p)
      /\ Lives' = [p \in Peer |-> LifeOf(p)']
  BY DEF Lives
<1> HIDE DEF Lives
<1> QED
  BY <1>3, <1>4 DEF Life!LoadPeers

(* Other steps do not show.                                                *)
LEMMA OtherLives ==
  ASSUME IInv, NEW t \in Thread,
         \/ NamePeer(t) \/ WaitForOthers(t) \/ GiveUp(t)
         \/ \E p \in Peer : Delete(t, p)
  PROVE  Lives' = Lives
<1>1. UNCHANGED <<byId, stored, created>>
  BY DEF NamePeer, WaitForOthers, GiveUp, Delete, maps
<1>2. ASSUME NEW q \in Peer PROVE SamePlaces(q)
  <2>1. CASE NamePeer(t)
    <3>1. /\ job[t].pc = "name" /\ job'[t].pc = "save"
          /\ job'[t].peer = job[t].peer /\ OthersSame(t)
      BY <2>1, OtherEffects DEF IInv, NamePeer, Alike
    <3> QED
      BY <3>1, SamePlacesOfOne, SameAlike
  <2>2. CASE WaitForOthers(t) \/ GiveUp(t)
    <3>1. /\ job[t].pc = "wait" /\ job'[t].pc = "purge"
          /\ job'[t].peer = job[t].peer /\ OthersSame(t)
      BY <2>2, OtherEffects DEF IInv, WaitForOthers, GiveUp, Alike
    <3> QED
      BY <3>1, SamePlacesOfOne, SameAlike
  <2>3. CASE \E p \in Peer : Delete(t, p)
    <3>1. /\ job[t].pc \notin Owning /\ job'[t].pc \notin Owning
          /\ \A u \in Thread \ {t} : job'[u] = job[u]
      BY <2>3 DEF Delete, Owning
    <3> QED
      BY <3>1 DEF SamePlaces, AtPlace, Owning
  <2> QED
    BY <2>1, <2>2, <2>3
<1>3. \A q \in Peer : LifeOf(q)' = LifeOf(q)
  BY <1>1, <1>2, LifeStays
<1> QED
  BY <1>3 DEF Lives

(* Every peer goes through the life that PeerLife promises, for any number *)
(* of threads, peers, deletions at a time and restarts.                    *)
THEOREM Refinement == Spec => ImplementsPeerLife
<1>1. Init => Life!LifeInit
  <2> SUFFICES ASSUME Init PROVE Life!LifeInit
    OBVIOUS
  <2>1. \A p \in Peer : LifeOf(p) = "new"
    BY RegistryAssumption DEF Init, LifeOf, Peer
  <2> QED
    BY <2>1 DEF Lives, Life!LifeInit
<1>2. IInv /\ [Next]_vars => [Life!LifeNext]_Lives
  <2> SUFFICES ASSUME IInv, [Next]_vars
               PROVE  Life!LifeNext \/ Lives' = Lives
    OBVIOUS
  <2>1. Quiet \/ (\E t \in Thread : Loud(t)) \/ Restart
    BY Steps DEF IInv
  <2>2. ASSUME NEW t \in Thread, Loud(t)
        PROVE  Life!LifeNext \/ Lives' = Lives
    BY <2>2, BuildLife, SaveLife, InsertLife, RemoveLife, DeleteLife, OtherLives
    DEF Loud, Life!LifeNext
  <2> QED
    BY <2>1, <2>2, QuietLives, ReloadLife DEF Life!LifeNext
<1> QED
  BY <1>1, <1>2, Invariance, PTL DEF Spec, ImplementsPeerLife, Life!LifeSpec

=============================================================================
