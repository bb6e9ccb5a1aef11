-------------------------------- MODULE Meshing --------------------------------
(***************************************************************************)
(* Repeaters.  A peer keeps the number of its repeater, and a repeater the *)
(* addresses of its meshing table, which is also in the database and, as   *)
(* filters, in the device.  The ping worker of EnOceanCentral gives peers  *)
(* a repeater, another or none, beside the calls addMeshingEntry,          *)
(* removeMeshingEntry, resetMeshingTables and the deletion of a peer.      *)
(* Nothing but the mutex of the table makes them take turns.               *)
(*                                                                         *)
(* Each of them is a task of its thread.  A change of the table is made in *)
(* memory, then the device is given a copy: all filters are deleted, then  *)
(* set one by one, and the copy is saved last.  Commands to the device may *)
(* be lost, and a command that is not acknowledged ends the transfer.      *)
(* What a peer measures is any value.                                      *)
(*                                                                         *)
(* Bounds: `budget', the checks, calls, restarts and updates (of Firmware)  *)
(* that are left.                                                          *)
(***************************************************************************)
EXTENDS Naturals, FiniteSets

CONSTANTS
  Rpc,        \* threads of calls
  Pinger,     \* the ping worker
  Endpoint,   \* peers that are given a repeater (kMeshingEndpoint)
  Repeater,   \* peers that can repeat (kMeshingRepeater)
  Enforced,   \* endpoints that need a repeater (kEnforceMeshing)
  None,
  Slots,      \* entries of a table: 30
  MaxTries,   \* attempts to remove an entry: 3
  Budgets     \* the values of `budget' to start with

ASSUME MeshingAssumption ==
  /\ Pinger \notin Rpc
  /\ IsFiniteSet(Endpoint \cup Repeater)
  /\ None \notin Endpoint \cup Repeater
  /\ Enforced \subseteq Endpoint
  /\ Slots \in Nat \ {0}
  /\ MaxTries \in Nat \ {0}
  /\ Budgets \subseteq
       [checks : Nat, calls : Nat, restarts : Nat, updates : Nat]

VARIABLES
  present,    \* the peers of the central
  repeaterId, \* [peer -> _repeaterId, which is saved with every change]
  repeated,   \* [repeater -> _repeatedAddresses]
  filters,    \* [repeater -> the filters of the device]
  saved,      \* [repeater -> its table in the database]
  task,       \* [thread -> what it does]
  updating,   \* _updatingFirmware
  budget,
  clean,      \* history: peers for which nothing failed, was refused or
              \* done by two tasks at once, see HalvesAgree
  dirty       \* history: repeaters whose last transfers failed or overlapped

meshingVars == <<present, repeaterId, repeated, filters, saved, task, clean,
                 dirty>>

Thread == Rpc \cup {Pinger}
Peer == Endpoint \cup Repeater

Idle == [pc |-> "idle", kind |-> "none", peer |-> None, target |-> None,
         best |-> None, copy |-> {}, tries |-> 0, unreach |-> FALSE,
         lone |-> FALSE, left |-> {}]

Kinds == {"add", "remove", "reset", "delete", "drop", "release", "take"}
Removing == {"remove", "delete", "drop", "release"}
Transferring == {"copy", "clear", "fill"}

(* The tasks that concern a peer, and the transfers to a repeater.         *)
TasksOf(e) == {t \in Thread : /\ task[t].pc # "idle"
                              /\ task[t].peer = e \/ task[t].kind = "reset"}
TransfersTo(r) == {t \in Thread : /\ task[t].pc \in Transferring
                                  /\ task[t].target = r}

(* The tables are within their size, and everything has its type.          *)
MeshingTypeOK ==
  /\ present \subseteq Peer
  /\ repeaterId \in [Peer -> Repeater \cup {None}]
  /\ {repeated, filters, saved} \subseteq [Repeater -> SUBSET Peer]
  /\ \A r \in Repeater : /\ Cardinality(repeated[r]) <= Slots
                         /\ Cardinality(saved[r]) <= Slots
  /\ \A t \in Thread :
       /\ task[t].pc \in Transferring
                           \cup {"idle", "decide", "found", "reset", "change"}
       /\ task[t].kind \in Kinds \cup {"none"}
       /\ {task[t].peer, task[t].target, task[t].best} \subseteq Peer \cup {None}
       /\ task[t].tries \in 0..MaxTries
  /\ clean \subseteq Peer
  /\ dirty \subseteq Repeater
  /\ updating \in BOOLEAN
  /\ budget \in [checks : Nat, calls : Nat, restarts : Nat, updates : Nat]

MeshingInit ==
  /\ present = Peer
  /\ repeaterId = [e \in Peer |-> None]
  /\ repeated = [r \in Repeater |-> {}]
  /\ filters = [r \in Repeater |-> {}]
  /\ saved = [r \in Repeater |-> {}]
  /\ task = [t \in Thread |-> Idle]
  /\ updating = FALSE
  /\ budget \in Budgets
  /\ clean = Peer
  /\ dirty = {}

tables == <<repeated, filters, saved>>

Set(t, new) == task' = [task EXCEPT ![t] = new]
Assign(e, r) == repeaterId' = [repeaterId EXCEPT ![e] = r]

(* Thread t starts something for the peers es, which concerns others too   *)
(* when it is not alone.                                                   *)
Begin(t, es, new) ==
  /\ Set(t, new)
  /\ clean' = clean \ {e \in es : TasksOf(e) # {}}
  /\ UNCHANGED <<present, repeaterId, tables, dirty>>
-----------------------------------------------------------------------------
(* updateMeshingTable.                                                     *)

(* Where a transfer, or the refusal of one, ends: what the callers of      *)
(* addRepeatedAddress and removeRepeatedAddress do with the result `ok'.   *)
Return(t, ok) ==
  LET w == task[t]
      e == w.peer
      done == ok /\ ~w.unreach
      again == w.kind \in {"drop", "release"} /\ ~done /\ w.tries < MaxTries
  IN /\ CASE w.kind = "reset" -> Set(t, [w EXCEPT !.pc = "reset"])
          [] again -> Set(t, [w EXCEPT !.pc = "change", !.tries = @ + 1])
          [] w.kind = "release" /\ done ->
               Set(t, [w EXCEPT !.pc = "change", !.kind = "take",
                                !.target = w.best])
          [] OTHER -> Set(t, Idle)
     /\ CASE w.kind = "add" /\ ok -> Assign(e, w.target)
          [] w.kind = "remove" /\ ok -> Assign(e, None)
          [] w.kind = "drop" /\ (done \/ (w.unreach /\ ~again)) -> Assign(e, None)
          [] w.kind = "release" /\ done -> Assign(e, w.best)
          [] OTHER -> UNCHANGED repeaterId
     /\ present' = IF w.kind = "delete" THEN present \ {e} ELSE present
     /\ clean' = IF \/ w.kind # "reset" /\ ~done /\ ~again
                    \/ w.kind = "remove" /\ repeaterId[e] \notin {w.target, None}
                 THEN clean \ {e} ELSE clean

(* Faulty variant: a full table takes one more.                            *)
NeverFull(w) == FALSE

(* addRepeatedAddress and removeRepeatedAddress, up to updateMeshingTable. *)
Full(w) ==
  w.kind \in {"add", "take"} /\ Cardinality(repeated[w.target]) = Slots

Change(t) ==
  LET w == task[t]
      r == w.target
      others == TransfersTo(r) \ {t}
  IN /\ w.pc = "change"
     /\ \/ /\ Full(w)
           /\ Return(t, FALSE)
           /\ UNCHANGED <<tables, dirty>>
        \/ /\ ~Full(w)
           /\ repeated' = [repeated EXCEPT ![r] =
                IF w.kind = "reset" THEN {}
                ELSE IF w.kind \in Removing THEN @ \ {w.peer}
                ELSE @ \cup {w.peer}]
           /\ task' = [u \in Thread |->
                IF u = t THEN [w EXCEPT !.pc = "copy", !.lone = (others = {})]
                ELSE IF u \in others THEN [task[u] EXCEPT !.lone = FALSE]
                ELSE task[u]]
           /\ UNCHANGED <<present, repeaterId, filters, saved, clean, dirty>>

CopyTable(t) ==
  /\ task[t].pc = "copy"
  /\ Set(t, [task[t] EXCEPT !.pc = "clear", !.copy = repeated[task[t].target]])
  /\ UNCHANGED <<present, repeaterId, tables, clean, dirty>>

(* A command to the device: obeyed or not, and if so, acknowledged or not. *)
Command(t, new, pc) ==
  LET w == task[t]
      r == w.target
  IN \/ /\ filters' = [filters EXCEPT ![r] = new]
        /\ Set(t, [w EXCEPT !.pc = pc])
        /\ UNCHANGED <<present, repeaterId, clean, dirty>>
     \/ /\ filters' \in {filters, [filters EXCEPT ![r] = new]}
        /\ dirty' = dirty \cup {r}
        /\ Return(t, FALSE)

(* Faulty variant: the old filters are kept.                               *)
ClearNothing(t) ==
  /\ task[t].pc = "clear"
  /\ Command(t, filters[task[t].target], "fill")
  /\ UNCHANGED <<repeated, saved>>

ClearFilters(t) ==
  /\ task[t].pc = "clear"
  /\ Command(t, {}, "fill")
  /\ UNCHANGED <<repeated, saved>>

AddFilter(t) ==
  /\ task[t].pc = "fill"
  /\ \E a \in task[t].copy \ filters[task[t].target] :
       Command(t, filters[task[t].target] \cup {a}, "fill")
  /\ UNCHANGED <<repeated, saved>>

(* Every entry of the copy was sent.                                       *)
SaveTable(t) ==
  LET w == task[t]
  IN /\ w.pc = "fill"
     /\ w.copy \subseteq filters[w.target]
     /\ saved' = [saved EXCEPT ![w.target] = w.copy]
     /\ dirty' = IF w.lone THEN dirty \ {w.target} ELSE dirty \cup {w.target}
     /\ Return(t, TRUE)
     /\ UNCHANGED <<repeated, filters>>
-----------------------------------------------------------------------------
(* The calls.                                                              *)

Call(t) ==
  /\ task[t].pc = "idle"
  /\ budget.calls > 0
  /\ budget' = [budget EXCEPT !.calls = @ - 1]

Job(kind, e, r) == [Idle EXCEPT !.pc = "change", !.kind = kind, !.peer = e,
                                !.target = r]

AddMeshingEntry(t) ==
  /\ Call(t)
  /\ \E e \in Endpoint, r \in Repeater \cap present :
       /\ e \in present => repeaterId[e] = None
       /\ Begin(t, {e}, Job("add", e, r))

RemoveMeshingEntry(t) ==
  /\ Call(t)
  /\ \E e \in Endpoint, r \in Repeater \cap present :
       Begin(t, {e}, Job("remove", e, r))

ResetMeshingTables(t) ==
  /\ Call(t)
  /\ Begin(t, Peer, [Idle EXCEPT !.pc = "reset", !.kind = "reset",
                                 !.left = present])

ResetPeer(t) ==
  LET w == task[t]
  IN /\ w.pc = "reset"
     /\ \/ /\ w.left = {}
           /\ Set(t, Idle)
           /\ UNCHANGED repeaterId
        \/ \E p \in w.left :
             /\ Assign(p, None)
             /\ Set(t, [w EXCEPT !.left = @ \ {p},
                                 !.target = p,
                                 !.pc = IF p \in Repeater THEN "change" ELSE @])
     /\ UNCHANGED <<present, tables, clean, dirty>>

(* deletePeer, up to what it does in Registry.                             *)
DeletePeer(t) ==
  /\ Call(t)
  /\ \E p \in present :
       \/ /\ repeaterId[p] \in present
          /\ Begin(t, {p}, Job("delete", p, repeaterId[p]))
       \/ /\ repeaterId[p] \notin present
          /\ present' = present \ {p}
          /\ UNCHANGED <<repeaterId, tables, task, clean, dirty>>
-----------------------------------------------------------------------------
(* pingWorker: a check of one peer.                                        *)

(* The peer's turn, and the pings that measure.                            *)
Check ==
  /\ task[Pinger].pc = "idle"
  /\ budget.checks > 0
  /\ ~updating
  /\ \E e \in Endpoint \cap present :
       Begin(Pinger, {e}, [Idle EXCEPT !.pc = "decide", !.kind = "take",
                                       !.peer = e])
  /\ budget' = [budget EXCEPT !.checks = @ - 1]

Quit ==
  /\ task[Pinger].pc \in {"decide", "found"}
  /\ Set(Pinger, Idle)
  /\ UNCHANGED <<present, repeaterId, tables, clean, dirty>>

(* A task that removes the peer from its repeater.                         *)
Leave(kind, w) ==
  \E unreach \in BOOLEAN :
    Set(Pinger, [w EXCEPT !.pc = "change", !.kind = kind, !.tries = 1,
                          !.target = repeaterId[w.peer], !.unreach = unreach])

DropRepeater ==
  LET w == task[Pinger]
  IN /\ w.pc = "decide"
     /\ w.peer \notin Enforced
     /\ repeaterId[w.peer] \in present
     /\ Leave("drop", w)
     /\ UNCHANGED <<present, repeaterId, tables, clean, dirty>>

(* The best repeater has a free slot when it is looked at, unless it is    *)
(* the repeater of one that has a repeater itself.                         *)
Candidates(e) ==
  {r \in (Repeater \cap present) \ {e} : Cardinality(repeated[r]) < Slots}
    \cup {repeaterId[r] : r \in {x \in (Repeater \cap present) \ {e} :
                                   e \in Enforced /\ repeaterId[x] \in present}}

FindRepeater ==
  LET w == task[Pinger]
  IN /\ w.pc = "decide"
     /\ \E r \in Candidates(w.peer) :
          Set(Pinger, [w EXCEPT !.pc = "found", !.best = r])
     /\ UNCHANGED <<present, repeaterId, tables, clean, dirty>>

(* Faulty variant: the old repeater keeps the peer.                        *)
TakeAtOnce ==
  LET w == task[Pinger]
  IN /\ w.pc = "found"
     /\ repeaterId[w.peer] # w.best
     /\ Set(Pinger, [w EXCEPT !.pc = "change", !.target = w.best])
     /\ Assign(w.peer, w.best)
     /\ UNCHANGED <<present, tables, clean, dirty>>

TakeRepeater ==
  LET w == task[Pinger]
  IN /\ w.pc = "found"
     /\ repeaterId[w.peer] # w.best
     /\ \/ /\ repeaterId[w.peer] \in present
           /\ Leave("release", w)
           /\ UNCHANGED repeaterId
        \/ /\ repeaterId[w.peer] \notin present
           /\ Set(Pinger, [w EXCEPT !.pc = "change", !.target = w.best])
           /\ Assign(w.peer, w.best)
     /\ UNCHANGED <<present, tables, clean, dirty>>
-----------------------------------------------------------------------------
(* The process ends, at any point, and starts again: loadVariables.        *)
MeshingRestart ==
  /\ budget.restarts > 0
  /\ budget' = [budget EXCEPT !.restarts = @ - 1]
  /\ task' = [t \in Thread |-> Idle]
  /\ repeated' = saved
  /\ clean' = {e \in clean : /\ TasksOf(e) = {}
                             /\ dirty = {}
                             /\ \A r \in Repeater : TransfersTo(r) = {}}
  /\ dirty' = dirty \cup {r \in Repeater : TransfersTo(r) # {}}
  /\ UNCHANGED <<present, repeaterId, filters, saved>>

Transfer(t) ==
  /\ Change(t) \/ CopyTable(t) \/ ClearFilters(t) \/ AddFilter(t) \/ SaveTable(t)
  /\ UNCHANGED budget

Calls(t) == \/ AddMeshingEntry(t) \/ RemoveMeshingEntry(t)
            \/ ResetMeshingTables(t) \/ DeletePeer(t)

Checking == /\ Quit \/ DropRepeater \/ FindRepeater \/ TakeRepeater
            /\ UNCHANGED budget

MeshingNext ==
  \/ \E t \in Thread : Transfer(t)
  \/ \E t \in Rpc : \/ Calls(t)
                    \/ ResetPeer(t) /\ UNCHANGED budget
  \/ Check
  \/ Checking
-----------------------------------------------------------------------------
(* Memory, device and database have one table, when no transfer runs and   *)
(* the last one was alone and was acknowledged: "save last in case of      *)
(* errors" does what it says, and a later transfer makes good what a       *)
(* failed one left.                                                        *)
TableAgrees ==
  \A r \in Repeater :
    TransfersTo(r) = {} /\ r \notin dirty =>
      /\ filters[r] = repeated[r]
      /\ saved[r] = repeated[r]

(* The two halves of the relation agree: a peer that nothing is done for   *)
(* is in the table of its repeater and in no other.  The code does not     *)
(* undo its half when the other fails, so the property is about a peer     *)
(* none of whose tasks failed, was refused by a full table, was one of two *)
(* at the same time, named a repeater the peer does not have, or was ended *)
(* by a restart that found unsaved tables.                                 *)
HalvesAgree ==
  \A e \in clean \cap present : TasksOf(e) = {} =>
    \A r \in Repeater \cap present :
      (repeaterId[e] = r) <=> (e \in repeated[r])
=============================================================================
