---------------------------- MODULE Firmware_proofs ----------------------------
(***************************************************************************)
(* Proofs about repeaters and firmware updates, for any number of peers,   *)
(* calls, checks, restarts and blocks, and tables of any size: the types,  *)
(* that memory, device and database have one table, that the two halves of *)
(* the relation of a peer and its repeater agree, and that the version in  *)
(* the database is not newer than that of the device.                      *)
(***************************************************************************)
EXTENDS Firmware, FiniteSetTheorems, SequenceTheorems, TLAPS

(* The tables and the counters have their types, and no table is too long. *)
TablesOK ==
  /\ present \subseteq Peer
  /\ repeaterId \in [Peer -> Repeater \cup {None}]
  /\ repeated \in [Repeater -> SUBSET Peer]
  /\ filters \in [Repeater -> SUBSET Peer]
  /\ saved \in [Repeater -> SUBSET Peer]
  /\ \A r \in Repeater : /\ Cardinality(repeated[r]) <= Slots
                         /\ Cardinality(saved[r]) <= Slots
  /\ clean \subseteq Peer
  /\ dirty \subseteq Repeater

BudgetOK ==
  /\ updating \in BOOLEAN
  /\ budget \in [checks : Nat, calls : Nat, restarts : Nat, updates : Nat]

(* A task has what its place needs: a repeater to change, the peer, the    *)
(* best repeater, and a copy of a table.                                   *)
Task ==
  [pc : Transferring \cup {"idle", "decide", "found", "reset", "change"},
   kind : Kinds \cup {"none"}, peer : Peer \cup {None},
   target : Peer \cup {None}, best : Peer \cup {None}, copy : SUBSET Peer,
   tries : 0..MaxTries, unreach : BOOLEAN, lone : BOOLEAN, left : SUBSET Peer]

GoodTask(w) ==
  /\ w.pc # "idle" => w.kind \in Kinds /\ (w.kind # "reset" => w.peer \in Peer)
  /\ w.pc \in Transferring \cup {"change"} => w.target \in Repeater
  /\ w.pc = "reset" => w.kind = "reset"
  /\ w.pc \in {"decide", "found"} => w.kind = "take"
  /\ w.pc = "found" \/ w.kind = "release" => w.best \in Repeater
  /\ w.pc \in {"clear", "fill"} => Cardinality(w.copy) <= Slots

TaskInv ==
  /\ task \in [Thread -> Task]
  /\ \A t \in Thread : GoodTask(task[t])

(* A transfer that is alone has copied the table as it is, and has set     *)
(* nothing else in the device.                                             *)
Alone(t) ==
  LET w == task[t]
  IN /\ TransfersTo(w.target) = {t}
     /\ w.pc \in {"clear", "fill"} => w.copy = repeated[w.target]
     /\ w.pc = "fill" => filters[w.target] \subseteq w.copy

LoneInv ==
  \A t \in Thread : task[t].pc \in Transferring /\ task[t].lone => Alone(t)

Agrees(e) ==
  \A r \in Repeater \cap present : (repeaterId[e] = r) <=> (e \in repeated[r])

(* What a task that is the only one of peer e has done to the two halves.  *)
Halfway(e, w) ==
  LET moving == w.pc \in Transferring
      In(r) == e \in repeated[r]
      There == Repeater \cap present
  IN /\ w.pc \in {"decide", "found"} => Agrees(e)
     /\ w.kind = "add" =>
          /\ repeaterId[e] = None
          /\ \A r \in There : In(r) <=> moving /\ r = w.target
     /\ w.kind = "remove" =>
          \A r \in There : IF moving /\ r = w.target THEN ~In(r)
                           ELSE (repeaterId[e] = r) <=> In(r)
     /\ w.kind \in {"drop", "release"} =>
          /\ repeaterId[e] = w.target
          /\ \A r \in There : moving \/ r # w.target => ~In(r)
     /\ w.kind = "take" /\ w.pc \in Transferring \cup {"change"} =>
          /\ repeaterId[e] = w.target
          /\ \A r \in There : IF r = w.target THEN moving => In(r) ELSE ~In(r)
     /\ w.kind = "reset" =>
          /\ e \notin w.left => repeaterId[e] = None
          /\ \A r \in There \ w.left : (w.pc = "change" /\ r = w.target) \/ ~In(r)

Related(e) ==
  /\ \A t, u \in TasksOf(e) : t = u
  /\ TasksOf(e) = {} => Agrees(e)
  /\ \A t \in TasksOf(e) : Halfway(e, task[t])

RelationInv == \A e \in clean \cap present : Related(e)

MeshingInv == TablesOK /\ BudgetOK /\ TaskInv /\ LoneInv /\ TableAgrees /\ RelationInv

(* Who is in the list of an update was in the bootloader, and answers that *)
(* it is not when it has the new firmware or fell back to the old.         *)
Entries ==
  [peer : Updatable, block : Block \cup {0}, retries : 0..MaxBlockRetries,
   total : 0..MaxTotalRetries, abort : BOOLEAN]

Accounted(x) ==
  \/ x.peer \in left
  \/ /\ node[x.peer] # Old
     /\ x.block = 0 => node[x.peer] = New

GoodEntry == {x \in Entries : Accounted(x)}

Update ==
  [pc : {"idle", "test", "set", "group", "begin", "enter", "choose", "send",
         "ask", "end", "fallback"},
   wide : SUBSET Updatable, single : SUBSET Updatable, broadcast : BOOLEAN,
   ids : SUBSET Updatable, rest : SUBSET Updatable,
   success : SUBSET Updatable, fresh : Seq(GoodEntry), old : Seq(GoodEntry),
   list : Seq(GoodEntry), block : Block \cup {0}, repeat : BOOLEAN, next : Nat]

(* A block is chosen before it is sent, and repeated only after that.      *)
GoodUpdate(w) ==
  /\ w.pc \in {"send", "ask"} \/ w.repeat => w.block \in Block
  /\ w.pc = "ask" => w.next # 0

UpdateInv ==
  /\ update \in [{Updater, Worker} -> Update]
  /\ \A u \in {Updater, Worker} : GoodUpdate(update[u])

DeviceInv ==
  /\ node \in [Updatable -> Block \cup {Old, New}]
  /\ version \in [Updatable -> {"old", "boot", "new"}]
  /\ left \subseteq Updatable

IInv == MeshingInv /\ UpdateInv /\ DeviceInv /\ VersionIsTrue
-----------------------------------------------------------------------------
(* Tables are finite.                                                      *)
LEMMA Sizes ==
  ASSUME NEW S \in SUBSET Peer
  PROVE  IsFiniteSet(S) /\ Cardinality(S) \in Nat
  BY MeshingAssumption, FS_Subset, FS_CardinalityType DEF Peer

LEMMA NoPeerIsNone == None \notin Peer /\ Repeater \subseteq Peer
  BY MeshingAssumption DEF Peer

LEMMA IdleIsTask == Idle \in Task /\ GoodTask(Idle)
  BY MeshingAssumption, SMT DEF Idle, Task, GoodTask, Transferring, Kinds

(* Where a transfer ends, its thread has nothing to do, or starts another  *)
(* change, or goes on with the reset.                                      *)
LEMMA ReturnTask ==
  ASSUME TablesOK, TaskInv, NEW t \in Thread, NEW ok \in BOOLEAN,
         task[t].pc \in Transferring \cup {"change"}, Return(t, ok)
  PROVE  \E new \in Task :
           /\ GoodTask(new)
           /\ new.pc \in {"idle", "reset", "change"}
           /\ task' = [task EXCEPT ![t] = new]
<1> DEFINE w == task[t]
<1>1. w \in Task /\ GoodTask(w)
  BY DEF TaskInv
<1>2. CASE Set(t, Idle)
  BY <1>2, IdleIsTask DEF Set, Idle
<1>3. CASE w.kind = "reset" /\ Set(t, [w EXCEPT !.pc = "reset"])
  <2> DEFINE new == [w EXCEPT !.pc = "reset"]
  <2>1. new \in Task /\ GoodTask(new) /\ new.pc = "reset"
    BY <1>1, <1>3 DEF Task, GoodTask, Transferring, Kinds
  <2> QED
    BY <2>1, <1>3 DEF Set
<1>4. CASE /\ w.tries < MaxTries
           /\ Set(t, [w EXCEPT !.pc = "change", !.tries = @ + 1])
  <2> DEFINE new == [w EXCEPT !.pc = "change", !.tries = @ + 1]
  <2>1. w.tries + 1 \in 0..MaxTries
    BY <1>1, <1>4, MeshingAssumption DEF Task
  <2>2. new \in Task /\ GoodTask(new) /\ new.pc = "change"
    BY <1>1, <2>1 DEF Task, GoodTask, Transferring, Kinds
  <2> QED
    BY <2>2, <1>4 DEF Set
<1>5. CASE /\ w.kind = "release"
           /\ Set(t, [w EXCEPT !.pc = "change", !.kind = "take",
                               !.target = w.best])
  <2> DEFINE new == [w EXCEPT !.pc = "change", !.kind = "take",
                              !.target = w.best]
  <2>1. new \in Task /\ GoodTask(new) /\ new.pc = "change"
    BY <1>1, <1>5, NoPeerIsNone DEF Task, GoodTask, Transferring, Kinds
  <2> QED
    BY <2>1, <1>5 DEF Set
<1> QED
  BY <1>2, <1>3, <1>4, <1>5 DEF Return

LEMMA ReturnTables ==
  ASSUME TablesOK, TaskInv, NEW t \in Thread, NEW ok \in BOOLEAN,
         task[t].pc \in Transferring \cup {"change"}, Return(t, ok)
  PROVE  /\ present' \subseteq present
         /\ repeaterId' \in [Peer -> Repeater \cup {None}]
         /\ clean' \subseteq clean
<1> DEFINE w == task[t]
<1>1. w \in Task /\ GoodTask(w)
  BY DEF TaskInv
<1>2. present' \subseteq present /\ clean' \subseteq clean
  BY DEF Return
<1>3. repeaterId' \in {repeaterId} \cup
        {[repeaterId EXCEPT ![w.peer] = r] : r \in {w.target, w.best, None}}
  BY DEF Return, Assign
<1>4. repeaterId' \in {repeaterId} \cup
        {[repeaterId EXCEPT ![w.peer] = r] : r \in Repeater \cup {None}}
  BY <1>1 DEF Return, Assign, GoodTask, Transferring
<1> QED
  BY <1>2, <1>4 DEF TablesOK

(* A command to the device is obeyed, or it ends the transfer.             *)
Sent(t) ==
  LET w == task[t]
  IN /\ w.pc \in {"clear", "fill"}
     /\ \E new \in SUBSET Peer :
          /\ filters' = [filters EXCEPT ![w.target] = new]
          /\ w.pc = "clear" => new = {}
          /\ new \subseteq filters[w.target] \cup w.copy
     /\ Set(t, [w EXCEPT !.pc = "fill"])
     /\ UNCHANGED <<present, repeaterId, repeated, saved, clean, dirty>>

Failed(t) ==
  LET w == task[t]
  IN /\ w.pc \in {"clear", "fill"}
     /\ filters' \in [Repeater -> SUBSET Peer]
     /\ \A r \in Repeater \ {w.target} : filters'[r] = filters[r]
     /\ dirty' = dirty \cup {w.target}
     /\ Return(t, FALSE)
     /\ UNCHANGED <<repeated, saved>>

LEMMA CommandEffect ==
  ASSUME TablesOK, TaskInv, NEW t \in Thread, ClearFilters(t) \/ AddFilter(t)
  PROVE  Sent(t) \/ Failed(t)
<1> DEFINE w == task[t]
<1>1. w \in Task /\ GoodTask(w)
  BY DEF TaskInv
<1>2. PICK new \in SUBSET Peer :
        /\ w.pc \in {"clear", "fill"}
        /\ Command(t, new, "fill")
        /\ w.pc = "clear" => new = {}
        /\ new \subseteq filters[w.target] \cup w.copy
        /\ UNCHANGED <<repeated, saved>>
  <2>1. CASE ClearFilters(t)
    BY <2>1 DEF ClearFilters
  <2>2. CASE AddFilter(t)
    <3>1. PICK a \in w.copy \ filters[w.target] :
            Command(t, filters[w.target] \cup {a}, "fill")
      BY <2>2 DEF AddFilter
    <3>2. /\ w.pc = "fill"
          /\ UNCHANGED <<repeated, saved>>
          /\ filters[w.target] \cup {a} \in SUBSET Peer
      BY <1>1, <2>2 DEF AddFilter, TablesOK, Task, GoodTask, Transferring
    <3> QED
      BY <3>1, <3>2
  <2> QED
    BY <2>1, <2>2
<1>3. w.target \in Repeater
  BY <1>1, <1>2 DEF GoodTask, Transferring
<1>4. [filters EXCEPT ![w.target] = new] \in [Repeater -> SUBSET Peer]
  BY <1>2, <1>3 DEF TablesOK
<1> QED
  BY <1>2, <1>3, <1>4 DEF Command, Sent, Failed, TablesOK

(* What may happen to repeaters.                                           *)
LEMMA MeshingSteps ==
  ASSUME TablesOK, TaskInv, [Next]_vars
  PROVE  \/ \E t \in Thread : \/ Change(t) \/ CopyTable(t) \/ Sent(t)
                              \/ Failed(t) \/ SaveTable(t)
         \/ \E t \in Rpc : \/ AddMeshingEntry(t) \/ RemoveMeshingEntry(t)
                           \/ ResetMeshingTables(t) \/ DeletePeer(t)
                           \/ ResetPeer(t)
         \/ Check \/ Quit \/ DropRepeater \/ FindRepeater \/ TakeRepeater
         \/ MeshingRestart
         \/ UNCHANGED meshingVars
  BY CommandEffect
     DEF Next, vars, MeshingNext, Transfer, Calls, Checking, Restart, UpdateStep
-----------------------------------------------------------------------------
(* The types.                                                              *)
LEMMA SetTask ==
  ASSUME TaskInv, NEW t \in Thread, NEW new \in Task, GoodTask(new),
         task' = [task EXCEPT ![t] = new]
  PROVE  TaskInv'
<1>1. \A u \in Thread : task'[u] = IF u = t THEN new ELSE task[u]
  BY DEF TaskInv
<1> QED
  BY <1>1 DEF TaskInv

LEMMA AddedSize ==
  ASSUME NEW S \in SUBSET Peer, NEW p \in Peer, Cardinality(S) <= Slots
  PROVE  /\ Cardinality(S) # Slots => Cardinality(S \cup {p}) <= Slots
         /\ Cardinality(S \ {p}) <= Slots
         /\ Cardinality({}) <= Slots
<1>1. IsFiniteSet(S) /\ Cardinality(S) \in Nat
  BY Sizes
<1>2. Cardinality(S \cup {p}) \in {Cardinality(S), Cardinality(S) + 1}
  BY <1>1, FS_AddElement
<1>3. Cardinality(S \ {p}) \in {Cardinality(S), Cardinality(S) - 1}
  BY <1>1, FS_RemoveElement
<1>4. Cardinality({}) = 0 /\ Slots \in Nat
  BY FS_EmptySet, MeshingAssumption
<1> QED
  BY <1>1, <1>2, <1>3, <1>4

(* A change of the table in memory makes it one entry longer at most.      *)
LEMMA ChangeTables ==
  ASSUME TablesOK, TaskInv, NEW t \in Thread, task[t].pc = "change",
         ~Full(task[t])
  PROVE  LET w == task[t]
             new == IF w.kind = "reset" THEN {}
                    ELSE IF w.kind \in Removing THEN repeated[w.target] \ {w.peer}
                    ELSE repeated[w.target] \cup {w.peer}
         IN new \in SUBSET Peer /\ Cardinality(new) <= Slots
<1> DEFINE w == task[t]
           S == repeated[w.target]
<1>1. /\ w.target \in Repeater
      /\ w.kind \in Kinds
      /\ w.kind # "reset" => w.peer \in Peer
  BY DEF TaskInv, GoodTask
<1>2. S \in SUBSET Peer /\ Cardinality(S) <= Slots
  BY <1>1 DEF TablesOK
<1>3. CASE w.kind = "reset"
  BY <1>3, FS_EmptySet, MeshingAssumption
<1>4. CASE w.kind \in Removing
  <2>1. w.kind # "reset" /\ w.peer \in Peer
    BY <1>1, <1>4 DEF Removing
  <2> QED
    BY <1>2, <1>4, <2>1, AddedSize
<1>5. CASE w.kind \in {"add", "take"}
  <2>1. w.kind # "reset" /\ w.kind \notin Removing /\ w.peer \in Peer
    BY <1>1, <1>5 DEF Removing
  <2>2. Cardinality(S) # Slots
    BY <1>5 DEF Full
  <2> QED
    BY <1>2, <2>1, <2>2, AddedSize
<1> QED
  BY <1>1, <1>3, <1>4, <1>5 DEF Kinds, Removing

LEMMA TablesStep ==
  ASSUME TablesOK, TaskInv, [Next]_vars
  PROVE  TablesOK'
<1>1. ASSUME NEW t \in Thread, Change(t) PROVE TablesOK'
  <2>1. CASE Return(t, FALSE) /\ UNCHANGED <<tables, dirty>>
    BY <1>1, <2>1, ReturnTables DEF TablesOK, tables, Change
  <2>2. CASE ~(Return(t, FALSE) /\ UNCHANGED <<tables, dirty>>)
    <3> DEFINE w == task[t]
    <3>1. PICK new \in SUBSET Peer :
            /\ Cardinality(new) <= Slots
            /\ repeated' = [repeated EXCEPT ![w.target] = new]
      BY <1>1, <2>2, ChangeTables DEF Change
    <3>2. UNCHANGED <<present, repeaterId, filters, saved, clean, dirty>>
      BY <1>1, <2>2 DEF Change
    <3> QED
      BY <3>1, <3>2 DEF TablesOK
  <2> QED
    BY <2>1, <2>2
<1>2. ASSUME NEW t \in Thread, CopyTable(t) PROVE TablesOK'
  BY <1>2 DEF CopyTable, TablesOK, tables
<1>3. ASSUME NEW t \in Thread, Sent(t) PROVE TablesOK'
  BY <1>3 DEF Sent, TablesOK
<1>4. ASSUME NEW t \in Thread, Failed(t) PROVE TablesOK'
  <2>1. task[t].target \in Repeater
    BY <1>4 DEF Failed, TaskInv, GoodTask, Transferring
  <2> QED
    BY <1>4, <2>1, ReturnTables DEF Failed, TablesOK, Transferring
<1>5. ASSUME NEW t \in Thread, SaveTable(t) PROVE TablesOK'
  <2>1. /\ task[t].pc = "fill"
        /\ task[t].target \in Repeater
        /\ task[t].copy \in SUBSET Peer
        /\ Cardinality(task[t].copy) <= Slots
    BY <1>5 DEF SaveTable, TaskInv, Task, GoodTask, Transferring
  <2>2. /\ saved' \in [Repeater -> SUBSET Peer]
        /\ \A r \in Repeater : Cardinality(saved'[r]) <= Slots
        /\ dirty' \subseteq Repeater
        /\ Return(t, TRUE)
        /\ UNCHANGED <<repeated, filters>>
    BY <1>5, <2>1 DEF SaveTable, TablesOK
  <2> QED
    BY <2>1, <2>2, ReturnTables DEF TablesOK, Transferring
<1>6. ASSUME NEW t \in Rpc,
             AddMeshingEntry(t) \/ RemoveMeshingEntry(t) \/ ResetMeshingTables(t)
      PROVE  TablesOK'
  BY <1>6 DEF AddMeshingEntry, RemoveMeshingEntry, ResetMeshingTables, Begin,
              tables, TablesOK
<1>7. ASSUME NEW t \in Rpc, DeletePeer(t) PROVE TablesOK'
  BY <1>7 DEF DeletePeer, Begin, tables, TablesOK
<1>8. ASSUME NEW t \in Rpc, ResetPeer(t) PROVE TablesOK'
  BY <1>8 DEF ResetPeer, Assign, tables, TablesOK
<1>9. CASE Check \/ Quit \/ DropRepeater \/ FindRepeater
  BY <1>9 DEF Check, Begin, Quit, DropRepeater, FindRepeater, tables, TablesOK
<1>10. CASE TakeRepeater
  <2>1. task[Pinger].pc = "found" => task[Pinger].best \in Repeater
    BY DEF TaskInv, GoodTask, Thread
  <2> QED
    BY <1>10, <2>1 DEF TakeRepeater, Assign, tables, TablesOK
<1>11. CASE MeshingRestart
  BY <1>11 DEF MeshingRestart, TransfersTo, TablesOK
<1>12. CASE UNCHANGED meshingVars
  BY <1>12 DEF meshingVars, TablesOK
<1> QED
  BY <1>1, <1>2, <1>3, <1>4, <1>5, <1>6, <1>7, <1>8, <1>9, <1>10, <1>11,
     <1>12, MeshingSteps

LEMMA TaskStep ==
  ASSUME TablesOK, TaskInv, [Next]_vars
  PROVE  TaskInv'
<1> USE DEF Set
<1>1. ASSUME NEW t \in Thread, Change(t) PROVE TaskInv'
  <2>1. CASE Return(t, FALSE)
    BY <1>1, <2>1, ReturnTask, SetTask DEF Change
  <2>2. CASE ~Return(t, FALSE)
    <3> DEFINE w == task[t]
               new == [w EXCEPT !.pc = "copy", !.lone = (TransfersTo(w.target) \ {t} = {})]
    <3>1. task' = [u \in Thread |->
            IF u = t THEN new
            ELSE IF u \in TransfersTo(w.target) \ {t}
                 THEN [task[u] EXCEPT !.lone = FALSE]
            ELSE task[u]]
      BY <1>1, <2>2 DEF Change
    <3>2. new \in Task /\ GoodTask(new)
      BY <1>1 DEF Change, TaskInv, Task, GoodTask, Transferring
    <3>3. ASSUME NEW u \in Thread
          PROVE  /\ [task[u] EXCEPT !.lone = FALSE] \in Task
                 /\ GoodTask([task[u] EXCEPT !.lone = FALSE])
      BY DEF TaskInv, Task, GoodTask
    <3> HIDE DEF new
    <3>4. \A u \in Thread : task'[u] \in Task /\ GoodTask(task'[u])
      BY <3>1, <3>2, <3>3 DEF TaskInv
    <3> QED
      BY <3>1, <3>4 DEF TaskInv
  <2> QED
    BY <2>1, <2>2
<1>2. ASSUME NEW t \in Thread, CopyTable(t) PROVE TaskInv'
  <2> DEFINE w == task[t]
             new == [w EXCEPT !.pc = "clear", !.copy = repeated[w.target]]
  <2>1. new \in Task /\ GoodTask(new)
    BY <1>2 DEF CopyTable, TaskInv, TablesOK, Task, GoodTask, Transferring
  <2> QED
    BY <1>2, <2>1, SetTask DEF CopyTable
<1>3. ASSUME NEW t \in Thread, Sent(t) PROVE TaskInv'
  <2> DEFINE new == [task[t] EXCEPT !.pc = "fill"]
  <2>1. new \in Task /\ GoodTask(new)
    BY <1>3 DEF Sent, TaskInv, Task, GoodTask, Transferring
  <2> QED
    BY <1>3, <2>1, SetTask DEF Sent
<1>4. ASSUME NEW t \in Thread, Failed(t) PROVE TaskInv'
  BY <1>4, ReturnTask, SetTask DEF Failed, Transferring
<1>5. ASSUME NEW t \in Thread, SaveTable(t) PROVE TaskInv'
  BY <1>5, ReturnTask, SetTask DEF SaveTable, Transferring
<1>6. ASSUME NEW t \in Rpc, AddMeshingEntry(t) \/ RemoveMeshingEntry(t)
      PROVE  TaskInv'
  <2>1. PICK kind \in {"add", "remove"}, e \in Endpoint, r \in Repeater :
          Begin(t, {e}, Job(kind, e, r))
    BY <1>6 DEF AddMeshingEntry, RemoveMeshingEntry
  <2>2. Job(kind, e, r) \in Task /\ GoodTask(Job(kind, e, r))
    BY IdleIsTask DEF Job, Task, GoodTask, Transferring, Kinds, Peer
  <2> QED
    BY <2>1, <2>2, SetTask DEF Begin, Thread
<1>7. ASSUME NEW t \in Rpc, ResetMeshingTables(t) PROVE TaskInv'
  <2> DEFINE new == [Idle EXCEPT !.pc = "reset", !.kind = "reset",
                                 !.left = present]
  <2>1. new \in Task /\ GoodTask(new)
    BY IdleIsTask DEF Task, GoodTask, Transferring, Kinds, TablesOK
  <2> QED
    BY <1>7, <2>1, SetTask DEF ResetMeshingTables, Begin, Thread
<1>8. ASSUME NEW t \in Rpc, DeletePeer(t) PROVE TaskInv'
  <2>1. CASE UNCHANGED task
    BY <2>1 DEF TaskInv
  <2>2. CASE \E p \in present : /\ repeaterId[p] \in present
                                /\ Begin(t, {p}, Job("delete", p, repeaterId[p]))
    <3>1. PICK p \in present : /\ repeaterId[p] \in present
                               /\ Begin(t, {p}, Job("delete", p, repeaterId[p]))
      BY <2>2
    <3>2. p \in Peer /\ repeaterId[p] \in Repeater
      BY <3>1, NoPeerIsNone DEF TablesOK
    <3>3. Job("delete", p, repeaterId[p]) \in Task /\
            GoodTask(Job("delete", p, repeaterId[p]))
      BY <3>2, IdleIsTask, NoPeerIsNone
         DEF Job, Task, GoodTask, Transferring, Kinds
    <3> QED
      BY <3>1, <3>3, SetTask DEF Begin, Thread
  <2> QED
    BY <1>8, <2>1, <2>2 DEF DeletePeer
<1>9. ASSUME NEW t \in Rpc, ResetPeer(t) PROVE TaskInv'
  <2>1. CASE task' = [task EXCEPT ![t] = Idle]
    BY <2>1, IdleIsTask, SetTask DEF Thread
  <2>2. ASSUME NEW p \in task[t].left,
               task' = [task EXCEPT ![t] =
                 [task[t] EXCEPT !.left = @ \ {p}, !.target = p,
                    !.pc = IF p \in Repeater THEN "change" ELSE @]]
        PROVE  TaskInv'
    <3> DEFINE new == [task[t] EXCEPT !.left = @ \ {p}, !.target = p,
                         !.pc = IF p \in Repeater THEN "change" ELSE @]
    <3>1. t \in Thread /\ task[t].pc = "reset"
      BY <1>9 DEF ResetPeer, Thread
    <3>2. new \in Task /\ GoodTask(new)
      BY <3>1 DEF TaskInv, Task, GoodTask, Transferring, Kinds
    <3> QED
      BY <2>2, <3>1, <3>2, SetTask
  <2> QED
    BY <1>9, <2>1, <2>2 DEF ResetPeer
<1>10. CASE Check
  <2>1. PICK e \in Endpoint :
          Begin(Pinger, {e}, [Idle EXCEPT !.pc = "decide", !.kind = "take",
                                          !.peer = e])
    BY <1>10 DEF Check
  <2> DEFINE new == [Idle EXCEPT !.pc = "decide", !.kind = "take", !.peer = e]
  <2>2. new \in Task /\ GoodTask(new)
    BY IdleIsTask DEF Task, GoodTask, Transferring, Kinds, Peer
  <2> QED
    BY <2>1, <2>2, SetTask DEF Begin, Thread
<1>11. CASE Quit
  BY <1>11, IdleIsTask, SetTask DEF Quit, Thread
<1>12. ASSUME NEW kind \in {"drop", "release"},
              repeaterId[task[Pinger].peer] \in present,
              task[Pinger].pc \in {"decide", "found"},
              kind = "release" => task[Pinger].pc = "found",
              Leave(kind, task[Pinger])
       PROVE  TaskInv'
  <2> DEFINE w == task[Pinger]
  <2>1. PICK unreach \in BOOLEAN :
          Set(Pinger, [w EXCEPT !.pc = "change", !.kind = kind, !.tries = 1,
                                !.target = repeaterId[w.peer],
                                !.unreach = unreach])
    BY <1>12 DEF Leave
  <2> DEFINE new == [w EXCEPT !.pc = "change", !.kind = kind, !.tries = 1,
                              !.target = repeaterId[w.peer],
                              !.unreach = unreach]
  <2>2. w \in Task /\ GoodTask(w) /\ Pinger \in Thread
    BY DEF TaskInv, Thread
  <2>3. w.peer \in Peer
    BY <1>12, <2>2 DEF GoodTask
  <2>4. repeaterId[w.peer] \in Repeater /\ repeaterId[w.peer] \in Peer
    BY <1>12, <2>3, NoPeerIsNone DEF TablesOK
  <2>5. new \in Task /\ GoodTask(new)
    <3>1. 1 \in 0..MaxTries
      BY MeshingAssumption
    <3> QED
      BY <1>12, <2>1, <2>2, <2>3, <2>4, <3>1
         DEF Task, GoodTask, Transferring, Kinds
  <2> QED
    BY <2>1, <2>2, <2>5, SetTask
<1>13. CASE DropRepeater
  BY <1>12, <1>13 DEF DropRepeater
<1>14. CASE FindRepeater
  <2> DEFINE w == task[Pinger]
  <2>1. w \in Task /\ GoodTask(w) /\ Pinger \in Thread /\ w.pc = "decide"
    BY <1>14 DEF FindRepeater, TaskInv, Thread
  <2>2. PICK r \in Candidates(w.peer) :
          Set(Pinger, [w EXCEPT !.pc = "found", !.best = r])
    BY <1>14 DEF FindRepeater
  <2>3. r \in Repeater
    BY <2>2, NoPeerIsNone DEF Candidates, TablesOK
  <2> DEFINE new == [w EXCEPT !.pc = "found", !.best = r]
  <2>4. new \in Task /\ GoodTask(new)
    BY <2>1, <2>3, NoPeerIsNone DEF Task, GoodTask, Transferring, Kinds
  <2> QED
    BY <2>1, <2>2, <2>4, SetTask
<1>15. CASE TakeRepeater
  <2>1. CASE repeaterId[task[Pinger].peer] \in present
    BY <1>12, <1>15, <2>1 DEF TakeRepeater
  <2>2. CASE repeaterId[task[Pinger].peer] \notin present
    <3> DEFINE w == task[Pinger]
               new == [w EXCEPT !.pc = "change", !.target = w.best]
    <3>1. w \in Task /\ GoodTask(w) /\ Pinger \in Thread /\ w.pc = "found"
      BY <1>15 DEF TakeRepeater, TaskInv, Thread
    <3>2. new \in Task /\ GoodTask(new)
      BY <3>1 DEF Task, GoodTask, Transferring, Kinds
    <3> QED
      BY <1>15, <2>2, <3>1, <3>2, SetTask DEF TakeRepeater
  <2> QED
    BY <2>1, <2>2
<1>16. CASE MeshingRestart
  BY <1>16, IdleIsTask DEF MeshingRestart, TaskInv
<1>17. CASE UNCHANGED meshingVars
  BY <1>17 DEF meshingVars, TaskInv
<1> QED
  BY <1>1, <1>2, <1>3, <1>4, <1>5, <1>6, <1>7, <1>8, <1>9, <1>10, <1>11,
     <1>13, <1>14, <1>15, <1>16, <1>17, MeshingSteps

LEMMA BudgetStep ==
  ASSUME TablesOK, BudgetOK, [Next]_vars
  PROVE  BudgetOK'
<1> USE DEF BudgetOK
<1>1. CASE MeshingNext /\ UNCHANGED <<updating, firmwareVars>>
  <2>1. \/ UNCHANGED budget
        \/ budget.checks > 0 /\ budget' = [budget EXCEPT !.checks = @ - 1]
        \/ budget.calls > 0 /\ budget' = [budget EXCEPT !.calls = @ - 1]
    BY <1>1 DEF MeshingNext, Transfer, Calls, AddMeshingEntry, Call,
                RemoveMeshingEntry, ResetMeshingTables, DeletePeer, Check,
                Checking
  <2> QED
    BY <1>1, <2>1
<1>2. ASSUME NEW u, NEW ids \in SUBSET Peer, Request(u, ids) PROVE BudgetOK'
  <2>1. Cardinality(ids) \in Nat
    BY Sizes
  <2> QED
    BY <1>2, <2>1 DEF Request
<1>3. CASE UpdateFirmware \/ CheckForUpdates
  BY <1>2, <1>3, FirmwareAssumption DEF UpdateFirmware, CheckForUpdates
<1>4. ASSUME NEW u \in {Updater, Worker}, UpdateStep(u) PROVE BudgetOK'
  BY <1>4 DEF UpdateStep, TestUpdating, SortIds, NextGroup, Fallback,
              BeginUpdate, AllEntered, EnterNot, EnterNew, EnterBootloader,
              Entered, ChooseBlock, SendBlock, AskBlock, EndUpdate
<1>5. CASE Restart
  <2>1. /\ budget.restarts > 0
        /\ budget' = [budget EXCEPT !.restarts = @ - 1]
    BY <1>5 DEF Restart, MeshingRestart
  <2>2. updating' \in BOOLEAN
    BY <1>5 DEF Restart
  <2> QED
    BY <2>1, <2>2
<1>6. CASE UNCHANGED vars
  BY <1>6 DEF vars
<1> QED
  BY <1>1, <1>3, <1>4, <1>5, <1>6 DEF Next
-----------------------------------------------------------------------------
(* Transfers.                                                              *)

(* A step of one thread that is not in a transfer, before and after.       *)
Aside(t) ==
  /\ \E new \in Task : /\ new.pc \notin Transferring
                       /\ task' = [task EXCEPT ![t] = new]
  /\ task[t].pc \notin Transferring
  /\ UNCHANGED <<repeated, filters, saved, dirty>>

LEMMA AsideKeeps ==
  ASSUME TaskInv, LoneInv, TableAgrees, NEW t \in Thread, Aside(t)
  PROVE  LoneInv' /\ TableAgrees'
<1>1. \A u \in Thread : /\ u # t => task'[u] = task[u]
                        /\ task'[t].pc \notin Transferring
  BY DEF Aside, TaskInv
<1>2. ASSUME NEW r PROVE TransfersTo(r)' = TransfersTo(r)
  BY <1>1 DEF TransfersTo, Aside
<1>3. TableAgrees'
  BY <1>2 DEF TableAgrees, Aside
<1>4. ASSUME NEW u \in Thread, task'[u].pc \in Transferring
      PROVE  u # t /\ task'[u] = task[u]
  BY <1>1, <1>4
<1>5. LoneInv'
  BY <1>2, <1>4 DEF LoneInv, Alone, Aside
<1> QED
  BY <1>3, <1>5

(* All steps but those of transfers and restarts are aside of them.        *)
LEMMA AsideSteps ==
  ASSUME TablesOK, TaskInv, TaskInv'
  PROVE  /\ \A t \in Thread : Change(t) /\ Return(t, FALSE)
                                /\ UNCHANGED <<tables, dirty>> => Aside(t)
         /\ \A t \in Rpc :
              AddMeshingEntry(t) \/ RemoveMeshingEntry(t)
                \/ ResetMeshingTables(t) \/ ResetPeer(t) => Aside(t)
         /\ \A t \in Rpc : DeletePeer(t) =>
              Aside(t) \/ UNCHANGED <<task, repeated, filters, saved, dirty>>
         /\ Check \/ Quit \/ DropRepeater \/ FindRepeater \/ TakeRepeater =>
              Aside(Pinger)
<1>1. ASSUME NEW t \in Thread, Change(t), Return(t, FALSE),
             UNCHANGED <<tables, dirty>>
      PROVE  Aside(t)
  BY <1>1, ReturnTask DEF Change, Aside, Transferring, tables
<1>2. ASSUME NEW t \in Thread, task[t].pc \notin Transferring, NEW new,
             Set(t, new), new.pc \notin Transferring,
             UNCHANGED <<tables, dirty>>
      PROVE  Aside(t)
  <2>1. new \in Task
    BY <1>2 DEF TaskInv, Set
  <2> QED
    BY <1>2, <2>1 DEF Aside, Set, tables
<1>3. ASSUME NEW t \in Rpc,
             AddMeshingEntry(t) \/ RemoveMeshingEntry(t)
               \/ ResetMeshingTables(t) \/ ResetPeer(t)
      PROVE  Aside(t)
  <2>1. t \in Thread
    BY DEF Thread
  <2>2. CASE AddMeshingEntry(t) \/ RemoveMeshingEntry(t)
    <3>1. PICK kind, e, r : Begin(t, {e}, Job(kind, e, r))
      BY <2>2 DEF AddMeshingEntry, RemoveMeshingEntry
    <3>2. task[t].pc \notin Transferring /\ Job(kind, e, r).pc = "change"
      BY <2>2 DEF AddMeshingEntry, RemoveMeshingEntry, Call, Job, Idle,
                  Transferring
    <3> QED
      BY <1>2, <2>1, <3>1, <3>2 DEF Begin, Transferring
  <2>3. CASE ResetMeshingTables(t)
    BY <1>2, <2>1, <2>3 DEF ResetMeshingTables, Call, Begin, Idle, Transferring
  <2>4. CASE ResetPeer(t)
    <3>1. task[t].pc = "reset" /\ UNCHANGED <<tables, dirty>>
      BY <2>4 DEF ResetPeer
    <3>2. CASE Set(t, Idle)
      <4>1. Idle.pc = "idle"
        BY DEF Idle
      <4> QED
        BY <1>2, <2>1, <3>1, <3>2, <4>1 DEF Transferring
    <3>3. ASSUME NEW p,
                 Set(t, [task[t] EXCEPT !.left = @ \ {p}, !.target = p,
                           !.pc = IF p \in Repeater THEN "change" ELSE @])
          PROVE  Aside(t)
      <4> DEFINE new == [task[t] EXCEPT !.left = @ \ {p}, !.target = p,
                           !.pc = IF p \in Repeater THEN "change" ELSE @]
      <4>1. new.pc \in {"reset", "change"}
        BY <2>1, <3>1 DEF TaskInv, Task
      <4> QED
        BY <1>2, <2>1, <3>1, <3>3, <4>1 DEF Transferring
    <3> QED
      BY <2>4, <3>2, <3>3 DEF ResetPeer
  <2> QED
    BY <1>3, <2>2, <2>3, <2>4
<1>4. ASSUME NEW t \in Rpc, DeletePeer(t)
      PROVE  Aside(t) \/ UNCHANGED <<task, repeated, filters, saved, dirty>>
  BY <1>2, <1>4 DEF DeletePeer, Call, Begin, Job, Idle, Transferring, Thread,
                    tables
<1>5. Pinger \in Thread
  BY DEF Thread
<1>6. ASSUME Check PROVE Aside(Pinger)
  <2>1. PICK e : Begin(Pinger, {e}, [Idle EXCEPT !.pc = "decide",
                                       !.kind = "take", !.peer = e])
    BY <1>6 DEF Check
  <2>2. task[Pinger].pc = "idle"
    BY <1>6 DEF Check
  <2>3. [Idle EXCEPT !.pc = "decide", !.kind = "take", !.peer = e].pc = "decide"
    BY DEF Idle
  <2> QED
    BY <1>2, <1>5, <2>1, <2>2, <2>3 DEF Begin, Transferring
<1>7. ASSUME Quit PROVE Aside(Pinger)
  <2>1. Idle.pc = "idle" /\ task[Pinger].pc \in {"decide", "found"}
    BY <1>7 DEF Quit, Idle
  <2> QED
    BY <1>2, <1>5, <1>7, <2>1 DEF Quit, Transferring
<1>8. ASSUME NEW kind, task[Pinger].pc \in {"decide", "found"},
             Leave(kind, task[Pinger]), UNCHANGED <<tables, dirty>>
      PROVE  Aside(Pinger)
  <2> DEFINE w == task[Pinger]
             Gone(unreach) ==
               [w EXCEPT !.pc = "change", !.kind = kind, !.tries = 1,
                         !.target = repeaterId[w.peer], !.unreach = unreach]
  <2>1. PICK unreach : Set(Pinger, Gone(unreach))
    BY <1>8 DEF Leave
  <2>2. Gone(unreach).pc = "change"
    BY <1>5 DEF TaskInv, Task
  <2> QED
    BY <1>2, <1>5, <1>8, <2>1, <2>2 DEF Transferring
<1>9. ASSUME DropRepeater PROVE Aside(Pinger)
  BY <1>8, <1>9 DEF DropRepeater
<1>10. ASSUME FindRepeater PROVE Aside(Pinger)
  <2>1. task[Pinger].pc = "decide" /\ UNCHANGED <<tables, dirty>>
    BY <1>10 DEF FindRepeater
  <2> DEFINE Found(r) == [task[Pinger] EXCEPT !.pc = "found", !.best = r]
  <2>2. PICK r : Set(Pinger, Found(r))
    BY <1>10 DEF FindRepeater
  <2>3. Found(r).pc = "found"
    BY <1>5 DEF TaskInv, Task
  <2> QED
    BY <1>2, <1>5, <2>1, <2>2, <2>3 DEF Transferring
<1>11. ASSUME TakeRepeater PROVE Aside(Pinger)
  <2>1. task[Pinger].pc = "found" /\ UNCHANGED <<tables, dirty>>
    BY <1>11 DEF TakeRepeater
  <2>2. CASE Leave("release", task[Pinger])
    BY <1>8, <2>1, <2>2
  <2>3. CASE ~Leave("release", task[Pinger])
    <3> DEFINE new == [task[Pinger] EXCEPT !.pc = "change",
                                           !.target = task[Pinger].best]
    <3>1. Set(Pinger, new)
      BY <1>11, <2>3 DEF TakeRepeater
    <3>2. new.pc = "change"
      BY <1>5 DEF TaskInv, Task
    <3> QED
      BY <1>2, <1>5, <2>1, <3>1, <3>2 DEF Transferring
  <2> QED
    BY <2>2, <2>3
<1> QED
  BY <1>1, <1>3, <1>4, <1>6, <1>7, <1>9, <1>10, <1>11
(* The steps of a transfer keep that one that is alone has the table, and  *)
(* that one that ends alone leaves the three tables the same.              *)
LEMMA TransfersOthers ==
  ASSUME TaskInv, NEW t \in Thread, NEW new \in Task,
         task' = [task EXCEPT ![t] = new], new.target = task[t].target
  PROVE  /\ \A u \in Thread \ {t} : task'[u] = task[u]
         /\ task'[t] = new
         /\ \A r : r # task[t].target => TransfersTo(r)' = TransfersTo(r)
         /\ new.pc \in Transferring /\ task[t].pc \in Transferring =>
              \A r : TransfersTo(r)' = TransfersTo(r)
<1>1. (\A u \in Thread \ {t} : task'[u] = task[u]) /\ task'[t] = new
  BY DEF TaskInv
<1> QED
  BY <1>1 DEF TransfersTo

(* A transfer that starts beside others is not alone, and neither are they. *)
LEMMA NoneAlone ==
  ASSUME TaskInv, NEW t \in Thread, NEW others,
         task' = [u \in Thread |->
            IF u = t THEN [task[t] EXCEPT !.pc = "copy", !.lone = (others = {})]
            ELSE IF u \in others THEN [task[u] EXCEPT !.lone = FALSE]
            ELSE task[u]]
  PROVE  /\ task'[t].pc = "copy" /\ task'[t].target = task[t].target
         /\ task'[t].lone => others = {}
         /\ \A u \in Thread \ {t} :
              /\ task'[u].pc = task[u].pc
              /\ task'[u].target = task[u].target
              /\ task'[u].copy = task[u].copy
              /\ task'[u].lone => task[u].lone /\ u \notin others
<1>1. task'[t] = [task[t] EXCEPT !.pc = "copy", !.lone = (others = {})]
  OBVIOUS
<1>2. task'[t].pc = "copy" /\ task'[t].target = task[t].target
  BY <1>1 DEF TaskInv, Task
<1>3. task[t] \in Task
  BY DEF TaskInv
<1>4. task'[t].lone => others = {}
  BY <1>1, <1>3 DEF Task
<1>5. ASSUME NEW u \in Thread \ {t}
      PROVE  /\ task'[u].pc = task[u].pc
             /\ task'[u].target = task[u].target
             /\ task'[u].copy = task[u].copy
             /\ task'[u].lone => task[u].lone /\ u \notin others
  <2>1. task[u] \in Task
    BY DEF TaskInv
  <2>2. ASSUME u \in others
        PROVE  /\ task'[u].pc = task[u].pc
               /\ task'[u].target = task[u].target
               /\ task'[u].copy = task[u].copy
               /\ ~task'[u].lone
    <3>1. task'[u] = [task[u] EXCEPT !.lone = FALSE]
      BY <2>2
    <3>2. ~task'[u].lone
      BY <2>1, <3>1 DEF Task
    <3> QED
      BY <2>1, <3>1, <3>2 DEF Task
  <2>3. u \notin others => task'[u] = task[u]
    OBVIOUS
  <2> QED
    BY <2>2, <2>3
<1> QED
  BY <1>2, <1>4, <1>5

LEMMA LoneStep ==
  ASSUME TablesOK, TaskInv, TaskInv', LoneInv, TableAgrees, [Next]_vars
  PROVE  LoneInv' /\ TableAgrees'
<1>1. ASSUME NEW t \in Thread, Change(t) PROVE LoneInv' /\ TableAgrees'
  <2>1. CASE Return(t, FALSE) /\ UNCHANGED <<tables, dirty>>
    BY <1>1, <2>1, AsideSteps, AsideKeeps
  <2>2. CASE ~(Return(t, FALSE) /\ UNCHANGED <<tables, dirty>>)
    <3> DEFINE w == task[t]
               r == w.target
               others == TransfersTo(r) \ {t}
    <3>1. w.pc = "change" /\ UNCHANGED <<filters, saved, dirty>>
      BY <1>1, <2>2 DEF Change
    <3>2. \A q \in Repeater \ {r} : repeated'[q] = repeated[q]
      BY <1>1, <2>2 DEF Change, TablesOK
    <3>3. task' = [u \in Thread |->
            IF u = t THEN [w EXCEPT !.pc = "copy", !.lone = (others = {})]
            ELSE IF u \in others THEN [task[u] EXCEPT !.lone = FALSE]
            ELSE task[u]]
      BY <1>1, <2>2 DEF Change
    <3>4. /\ task'[t].pc = "copy" /\ task'[t].target = r
          /\ task'[t].lone => others = {}
          /\ \A u \in Thread \ {t} :
               /\ task'[u].pc = task[u].pc
               /\ task'[u].target = task[u].target
               /\ task'[u].copy = task[u].copy
               /\ task'[u].lone => task[u].lone /\ u \notin others
      <4> HIDE DEF others
      <4> QED
        BY <3>3, NoneAlone
    <3>5. ASSUME NEW q, q # r PROVE TransfersTo(q)' = TransfersTo(q)
      BY <3>1, <3>4, <3>5 DEF TransfersTo, Transferring
    <3>6. ASSUME NEW q, q = r PROVE TransfersTo(q)' = others \cup {t}
      BY <3>4, <3>6 DEF TransfersTo, Transferring
    <3>7. TableAgrees'
      BY <3>1, <3>2, <3>5, <3>6 DEF TableAgrees
    <3>8. ASSUME NEW u \in Thread, task'[u].pc \in Transferring, task'[u].lone
          PROVE  Alone(u)'
      <4>1. CASE u = t
        BY <3>4, <3>6, <3>8, <4>1 DEF Alone
      <4>2. CASE u # t
        <5>1. /\ task[u].pc \in Transferring /\ task[u].lone
              /\ u \notin others
          BY <3>4, <3>8, <4>2
        <5>2. task[u].target # r
          BY <4>2, <5>1 DEF TransfersTo
        <5>3. task[u].target \in Repeater
          BY <5>1 DEF TaskInv, GoodTask
        <5>4. Alone(u)
          BY <5>1 DEF LoneInv
        <5> QED
          BY <3>1, <3>2, <3>4, <3>5, <4>2, <5>2, <5>3, <5>4 DEF Alone
      <4> QED
        BY <4>1, <4>2
    <3>9. LoneInv'
      BY <3>8 DEF LoneInv
    <3> QED
      BY <3>7, <3>9
  <2> QED
    BY <2>1, <2>2
<1>2. ASSUME NEW t \in Thread, CopyTable(t) PROVE LoneInv' /\ TableAgrees'
  <2> DEFINE w == task[t]
             new == [w EXCEPT !.pc = "clear", !.copy = repeated[w.target]]
  <2>1. /\ w.pc = "copy"
        /\ task' = [task EXCEPT ![t] = new]
        /\ UNCHANGED <<repeated, filters, saved, dirty>>
    BY <1>2 DEF CopyTable, Set, tables
  <2>2. task'[t] = new
    BY <2>1 DEF TaskInv
  <2>3. new \in Task
    BY <2>2 DEF TaskInv
  <2>4. /\ new.pc = "clear" /\ new.target = w.target /\ new.lone = w.lone
        /\ new.copy = repeated[w.target]
    BY DEF TaskInv, Task
  <2> HIDE DEF new
  <2>5. \A r : TransfersTo(r)' = TransfersTo(r)
    BY <2>1, <2>3, <2>4, TransfersOthers DEF Transferring
  <2>6. \A u \in Thread \ {t} : task'[u] = task[u]
    BY <2>1, <2>3, <2>4, TransfersOthers
  <2>7. TableAgrees'
    BY <2>1, <2>5 DEF TableAgrees
  <2>8. LoneInv'
    BY <2>1, <2>2, <2>4, <2>5, <2>6 DEF LoneInv, Alone, Transferring
  <2> QED
    BY <2>7, <2>8
<1>3. ASSUME NEW t \in Thread, Sent(t) PROVE LoneInv' /\ TableAgrees'
  <2> DEFINE w == task[t]
             r == w.target
             new == [w EXCEPT !.pc = "fill"]
  <2>1. PICK sent \in SUBSET Peer :
          /\ filters' = [filters EXCEPT ![r] = sent]
          /\ w.pc = "clear" => sent = {}
          /\ sent \subseteq filters[r] \cup w.copy
    BY <1>3 DEF Sent
  <2>2. /\ w.pc \in {"clear", "fill"}
        /\ task' = [task EXCEPT ![t] = new]
        /\ UNCHANGED <<repeated, saved, dirty>>
    BY <1>3 DEF Sent, Set
  <2>3. task'[t] = new
    BY <2>2 DEF TaskInv
  <2>4. new \in Task
    BY <2>3 DEF TaskInv
  <2>5. /\ new.pc = "fill" /\ new.target = r /\ new.lone = w.lone
        /\ new.copy = w.copy
    BY DEF TaskInv, Task
  <2> HIDE DEF new
  <2>6. \A q : TransfersTo(q)' = TransfersTo(q)
    <3>1. new.pc \in Transferring /\ w.pc \in Transferring
      BY <2>2, <2>5 DEF Transferring
    <3> QED
      BY <2>2, <2>4, <2>5, <3>1, TransfersOthers
  <2>7. \A u \in Thread \ {t} : task'[u] = task[u]
    BY <2>2, <2>4, <2>5, TransfersOthers
  <2>8. /\ t \in TransfersTo(r) /\ r \in Repeater
        /\ filters'[r] = sent
        /\ \A q \in Repeater \ {r} : filters'[q] = filters[q]
    BY <2>1, <2>2 DEF TransfersTo, Transferring, TablesOK, TaskInv, GoodTask
  <2>9. TableAgrees'
    BY <2>2, <2>6, <2>8 DEF TableAgrees
  <2>10. ASSUME NEW u \in Thread \ {t}, task'[u].pc \in Transferring,
                task'[u].lone
         PROVE  task'[u].target \in Repeater \ {r}
    <3>1. Alone(u) /\ task'[u] = task[u]
      BY <2>7, <2>10 DEF LoneInv
    <3> QED
      BY <2>8, <2>10, <3>1 DEF Alone, TaskInv, GoodTask
  <2>11. LoneInv'
    <3>1. ASSUME NEW u \in Thread \ {t}, task'[u].pc \in Transferring,
                 task'[u].lone
          PROVE  Alone(u)'
      <4>1. Alone(u) /\ task'[u] = task[u]
        BY <2>7, <3>1 DEF LoneInv
      <4> QED
        BY <2>2, <2>6, <2>8, <2>10, <3>1, <4>1 DEF Alone
    <3>2. ASSUME w.lone
          PROVE  Alone(t)'
      <4>1. Alone(t)
        BY <2>2, <3>2 DEF LoneInv, Transferring
      <4> QED
        BY <2>1, <2>2, <2>3, <2>5, <2>6, <2>8, <4>1 DEF Alone
    <3>3. task'[t].lone => w.lone
      BY <2>3, <2>5
    <3> QED
      BY <3>1, <3>2, <3>3 DEF LoneInv
  <2> QED
    BY <2>9, <2>11
<1>4. ASSUME NEW t \in Thread, NEW new \in Task,
             task[t].pc \in Transferring, new.pc \notin Transferring,
             task' = [task EXCEPT ![t] = new],
             repeated' = repeated,
             \A r \in Repeater \ {task[t].target} :
               /\ filters'[r] = filters[r]
               /\ saved'[r] = saved[r]
               /\ r \in dirty' <=> r \in dirty
      PROVE  /\ LoneInv'
             /\ \A r \in Repeater \ {task[t].target} :
                  TransfersTo(r)' = {} /\ r \notin dirty' =>
                    /\ filters'[r] = repeated'[r]
                    /\ saved'[r] = repeated'[r]
  <2>1. (\A u \in Thread \ {t} : task'[u] = task[u]) /\ task'[t] = new
    BY <1>4 DEF TaskInv
  <2>2. \A r : r # task[t].target => TransfersTo(r)' = TransfersTo(r)
    BY <1>4, <2>1 DEF TransfersTo
  <2>3. t \in TransfersTo(task[t].target)
    BY <1>4 DEF TransfersTo
  <2>4. ASSUME NEW u \in Thread, task'[u].pc \in Transferring, task'[u].lone
        PROVE  Alone(u)'
    <3>1. u # t /\ task'[u] = task[u]
      BY <1>4, <2>1, <2>4
    <3>2. task[u].target \in Repeater \ {task[t].target}
      <4>1. Alone(u)
        BY <2>4, <3>1 DEF LoneInv
      <4> QED
        BY <2>3, <2>4, <3>1, <4>1 DEF Alone, TaskInv, GoodTask
    <3>3. Alone(u)
      BY <2>4, <3>1 DEF LoneInv
    <3> QED
      BY <1>4, <2>2, <3>1, <3>2, <3>3 DEF Alone
  <2>5. LoneInv'
    BY <2>4 DEF LoneInv
  <2> QED
    BY <1>4, <2>2, <2>5 DEF TableAgrees
<1>5. ASSUME NEW t \in Thread, Failed(t) PROVE LoneInv' /\ TableAgrees'
  <2> DEFINE r == task[t].target
  <2>1. PICK new \in Task : /\ new.pc \in {"idle", "reset", "change"}
                            /\ task' = [task EXCEPT ![t] = new]
    BY <1>5, ReturnTask DEF Failed, Transferring
  <2>2. /\ LoneInv'
        /\ \A q \in Repeater \ {r} : TransfersTo(q)' = {} /\ q \notin dirty' =>
             filters'[q] = repeated'[q] /\ saved'[q] = repeated'[q]
    BY <1>4, <1>5, <2>1 DEF Failed, Transferring
  <2>3. r \in dirty'
    BY <1>5 DEF Failed
  <2> QED
    BY <2>2, <2>3 DEF TableAgrees
<1>6. ASSUME NEW t \in Thread, SaveTable(t) PROVE LoneInv' /\ TableAgrees'
  <2> DEFINE w == task[t]
             r == w.target
  <2>1. PICK new \in Task : /\ new.pc \in {"idle", "reset", "change"}
                            /\ task' = [task EXCEPT ![t] = new]
    BY <1>6, ReturnTask DEF SaveTable, Transferring
  <2>2. /\ w.pc = "fill" /\ r \in Repeater
        /\ w.copy \subseteq filters[r]
        /\ saved' = [saved EXCEPT ![r] = w.copy]
        /\ dirty' = IF w.lone THEN dirty \ {r} ELSE dirty \cup {r}
        /\ UNCHANGED <<repeated, filters>>
    BY <1>6 DEF SaveTable, TaskInv, GoodTask, Transferring
  <2>3. /\ LoneInv'
        /\ \A q \in Repeater \ {r} : TransfersTo(q)' = {} /\ q \notin dirty' =>
             filters'[q] = repeated'[q] /\ saved'[q] = repeated'[q]
    BY <1>4, <2>1, <2>2 DEF Transferring, TablesOK
  <2>4. CASE w.lone
    <3>1. w.copy = repeated[r] /\ filters[r] \subseteq w.copy
      BY <2>2, <2>4 DEF LoneInv, Alone, Transferring
    <3>2. filters'[r] = repeated'[r] /\ saved'[r] = repeated'[r]
      BY <2>2, <3>1 DEF TablesOK
    <3> QED
      BY <2>3, <3>2 DEF TableAgrees
  <2>5. CASE ~w.lone
    <3>1. r \in dirty'
      BY <2>2, <2>5
    <3> QED
      BY <2>3, <3>1 DEF TableAgrees
  <2> QED
    BY <2>4, <2>5
<1>7. CASE MeshingRestart
  <2>1. \A u \in Thread : task'[u].pc = "idle"
    BY <1>7 DEF MeshingRestart, Idle
  <2>2. LoneInv'
    BY <2>1 DEF LoneInv, Transferring
  <2>3. /\ repeated' = saved /\ UNCHANGED <<filters, saved>>
        /\ dirty' = dirty \cup {r \in Repeater : TransfersTo(r) # {}}
    BY <1>7 DEF MeshingRestart
  <2>4. TableAgrees'
    BY <2>3 DEF TableAgrees
  <2> QED
    BY <2>2, <2>4
<1>8. CASE UNCHANGED <<task, repeated, filters, saved, dirty>>
  BY <1>8 DEF LoneInv, Alone, TableAgrees, TransfersTo
<1>9. UNCHANGED meshingVars =>
        UNCHANGED <<task, repeated, filters, saved, dirty>>
  BY DEF meshingVars
<1>10. ASSUME NEW t \in Rpc,
              \/ AddMeshingEntry(t) \/ RemoveMeshingEntry(t)
              \/ ResetMeshingTables(t) \/ DeletePeer(t) \/ ResetPeer(t)
       PROVE  LoneInv' /\ TableAgrees'
  <2>1. t \in Thread
    BY DEF Thread
  <2>2. Aside(t) \/ UNCHANGED <<task, repeated, filters, saved, dirty>>
    BY <1>10, AsideSteps
  <2>3. CASE Aside(t)
    BY <2>1, <2>3, AsideKeeps
  <2> QED
    BY <1>8, <2>2, <2>3
<1>11. CASE Check \/ Quit \/ DropRepeater \/ FindRepeater \/ TakeRepeater
  BY <1>11, AsideSteps, AsideKeeps DEF Thread
<1> QED
  BY <1>1, <1>2, <1>3, <1>5, <1>6, <1>7, <1>8, <1>9, <1>10, <1>11, MeshingSteps
-----------------------------------------------------------------------------
(* The two halves.                                                         *)

(* What of a task concerns the relation is unchanged.                      *)
Same(u) ==
  /\ task'[u].pc = task[u].pc
  /\ task'[u].kind = task[u].kind
  /\ task'[u].peer = task[u].peer
  /\ task'[u].target = task[u].target
  /\ task'[u].left = task[u].left

OthersSame(t) == \A u \in Thread \ {t} : Same(u)

(* A step of a thread that does nothing for the peer.                      *)
LEMMA Elsewhere ==
  ASSUME NEW t \in Thread, NEW e, Related(e), OthersSame(t),
         t \notin TasksOf(e), (t \notin TasksOf(e))',
         present' \subseteq present, repeaterId'[e] = repeaterId[e],
         \A r \in Repeater : e \in repeated'[r] <=> e \in repeated[r]
  PROVE  Related(e)'
<1>1. TasksOf(e)' = TasksOf(e)
  BY DEF TasksOf, OthersSame, Same
<1>2. ASSUME NEW u \in TasksOf(e) PROVE u \in Thread \ {t} /\ Same(u)
  BY DEF TasksOf, OthersSame
<1>3. Agrees(e) => Agrees(e)'
  BY DEF Agrees
<1>4. ASSUME NEW u \in TasksOf(e), Halfway(e, task[u])
      PROVE  Halfway(e, task[u])'
  BY <1>2, <1>3, <1>4 DEF Halfway, Same
<1> QED
  BY <1>1, <1>3, <1>4 DEF Related

(* A step of the only thread that does something for the peer.             *)
LEMMA Own ==
  ASSUME NEW t \in Thread, NEW e, OthersSame(t), \A u \in TasksOf(e) : u = t,
         (t \in TasksOf(e))' => Halfway(e, task[t])',
         (t \notin TasksOf(e))' => Agrees(e)'
  PROVE  Related(e)'
<1>1. ASSUME NEW u \in Thread, u # t PROVE (u \notin TasksOf(e))'
  BY <1>1 DEF TasksOf, OthersSame, Same
<1>2. (\A u \in TasksOf(e) : u = t)'
  BY <1>1 DEF TasksOf
<1> QED
  BY <1>2 DEF Related

LEMMA SetSame ==
  ASSUME TaskInv, NEW t \in Thread, NEW new, task' = [task EXCEPT ![t] = new]
  PROVE  OthersSame(t) /\ task'[t] = new
  BY DEF TaskInv, OthersSame, Same

(* A thread starts something: the peers it concerns have no other task.    *)
LEMMA BeginRelated ==
  ASSUME TablesOK, TaskInv, RelationInv, NEW t \in Thread,
         task[t].pc = "idle", NEW es, NEW new, Begin(t, es, new),
         NEW e \in clean' \cap present',
         e \notin es => new.peer # e /\ new.kind # "reset",
         e \in es /\ Agrees(e) => Halfway(e, new)
  PROVE  Related(e)'
<1>1. /\ task' = [task EXCEPT ![t] = new]
      /\ clean' = clean \ {x \in es : TasksOf(x) # {}}
      /\ UNCHANGED <<present, repeaterId, repeated>>
  BY DEF Begin, Set, tables
<1>2. OthersSame(t) /\ task'[t] = new
  BY <1>1, SetSame
<1>3. e \in clean \cap present /\ Related(e) /\ t \notin TasksOf(e)
  BY <1>1 DEF RelationInv, TasksOf
<1>4. CASE e \in es
  <2>1. TasksOf(e) = {} /\ Agrees(e)
    BY <1>1, <1>3, <1>4 DEF Related
  <2>2. Agrees(e)' /\ Halfway(e, new)
    BY <1>1, <1>4, <2>1 DEF Agrees
  <2>3. Halfway(e, task[t])'
    BY <1>1, <1>2, <2>2 DEF Halfway, Agrees
  <2> QED
    BY <1>2, <2>1, <2>2, <2>3, Own
<1>5. CASE e \notin es
  <2>1. (t \notin TasksOf(e))'
    BY <1>2, <1>5 DEF TasksOf
  <2> QED
    BY <1>1, <1>2, <1>3, <2>1, Elsewhere
<1> QED
  BY <1>4, <1>5

(* A transfer ends, or is refused.                                         *)
LEMMA ReturnElsewhere ==
  ASSUME TablesOK, TaskInv, NEW t \in Thread, NEW ok \in BOOLEAN, NEW e \in Peer,
         task[t].pc \in Transferring \cup {"change"}, Return(t, ok),
         t \notin TasksOf(e)
  PROVE  (t \notin TasksOf(e))' /\ repeaterId'[e] = repeaterId[e]
<1> DEFINE w == task[t]
<1>1. w \in Task /\ w.kind # "reset" /\ w.peer # e
  BY DEF TasksOf, TaskInv, Transferring
<1>2. repeaterId'[e] = repeaterId[e]
  BY <1>1 DEF Return, Assign, TablesOK
<1>3. CASE Set(t, Idle)
  BY <1>2, <1>3 DEF Set, Idle, TasksOf, TaskInv
<1>4. CASE Set(t, [w EXCEPT !.pc = "change", !.tries = @ + 1])
  BY <1>1, <1>2, <1>4 DEF Set, TasksOf, TaskInv, Task
<1>5. CASE Set(t, [w EXCEPT !.pc = "change", !.kind = "take",
                            !.target = w.best])
  BY <1>1, <1>2, <1>5 DEF Set, TasksOf, TaskInv, Task
<1>6. \/ Set(t, Idle)
      \/ Set(t, [w EXCEPT !.pc = "change", !.tries = @ + 1])
      \/ Set(t, [w EXCEPT !.pc = "change", !.kind = "take", !.target = w.best])
  BY <1>1 DEF Return
<1> QED
  BY <1>2, <1>3, <1>4, <1>5, <1>6
LEMMA ReturnOwn ==
  ASSUME TablesOK, TaskInv, NEW t \in Thread, NEW ok \in BOOLEAN,
         Return(t, ok), UNCHANGED repeated,
         ok => task[t].pc \in Transferring,
         \/ task[t].pc \in Transferring
         \/ task[t].pc = "change" /\ task[t].kind \in {"add", "take"},
         NEW e \in clean' \cap present', e \in clean \cap present, e \in Peer,
         Related(e), t \in TasksOf(e)
  PROVE  Related(e)'
<1> DEFINE w == task[t]
           There == Repeater \cap present
           In(r) == e \in repeated[r]
           done == ok /\ ~w.unreach
           again == w.kind \in {"drop", "release"} /\ ~done /\ w.tries < MaxTries
<1>1. /\ w \in Task /\ GoodTask(w)
      /\ w.pc \in Transferring \cup {"change"}
      /\ w.kind \in Kinds /\ w.target \in Repeater
      /\ w.kind # "reset" => w.peer = e
      /\ \A u \in TasksOf(e) : u = t
      /\ Halfway(e, w)
      /\ None \notin Repeater
      /\ present' \subseteq present
  BY ReturnTables, NoPeerIsNone
     DEF TasksOf, Related, TaskInv, GoodTask, Kinds, TablesOK
<1>2. /\ w.kind # "reset" => done \/ again
      /\ w.kind # "delete"
      /\ w.kind = "remove" => repeaterId[e] \in {w.target, None}
  BY <1>1 DEF Return
<1> SUFFICES /\ OthersSame(t)
             /\ (t \in TasksOf(e))' => Halfway(e, task[t])'
             /\ (t \notin TasksOf(e))' => Agrees(e)'
  BY <1>1, Own
<1>3. ASSUME Set(t, Idle)
      PROVE  OthersSame(t) /\ (t \notin TasksOf(e))'
  <2>1. OthersSame(t) /\ task'[t] = Idle
    BY <1>3, SetSame DEF Set, Idle
  <2> QED
    BY <2>1 DEF TasksOf, Idle
<1>4. CASE w.kind = "add"
  <2>1. ok /\ w.pc \in Transferring
    BY <1>2, <1>4
  <2>2. Set(t, Idle) /\ repeaterId' = [repeaterId EXCEPT ![e] = w.target]
    BY <1>1, <1>2, <1>4 DEF Return, Assign
  <2>3. \A r \in There : In(r) <=> r = w.target
    BY <1>1, <1>4, <2>1 DEF Halfway
  <2>4. repeaterId'[e] = w.target
    BY <2>2 DEF TablesOK
  <2> QED
    BY <1>1, <1>3, <2>2, <2>3, <2>4 DEF Agrees
<1>5. CASE w.kind = "remove"
  <2>1. ok /\ w.pc \in Transferring
    BY <1>2, <1>5
  <2>2. Set(t, Idle) /\ repeaterId' = [repeaterId EXCEPT ![e] = None]
    BY <1>1, <1>2, <1>5 DEF Return, Assign
  <2>3. \A r \in There : ~In(r)
    BY <1>1, <1>2, <1>5, <2>1 DEF Halfway
  <2>4. repeaterId'[e] = None
    BY <2>2 DEF TablesOK
  <2> QED
    BY <1>1, <1>3, <2>2, <2>3, <2>4 DEF Agrees
<1>6. CASE w.kind = "take"
  <2>1. ok /\ w.pc \in Transferring
    BY <1>2, <1>6
  <2>2. Set(t, Idle) /\ UNCHANGED repeaterId
    BY <1>1, <1>2, <1>6 DEF Return
  <2>3. repeaterId[e] = w.target /\ \A r \in There : In(r) <=> r = w.target
    BY <1>1, <1>6, <2>1 DEF Halfway
  <2> QED
    BY <1>1, <1>3, <2>2, <2>3 DEF Agrees
<1>7. CASE w.kind \in {"drop", "release"} /\ again
  <2>1. /\ Set(t, [w EXCEPT !.pc = "change", !.tries = @ + 1])
        /\ UNCHANGED repeaterId
    BY <1>7 DEF Return
  <2>2. OthersSame(t) /\ task'[t] = [w EXCEPT !.pc = "change", !.tries = @ + 1]
    BY <2>1, SetSame DEF Set
  <2>3. /\ task'[t].kind = w.kind /\ task'[t].target = w.target
        /\ task'[t].peer = w.peer /\ task'[t].pc = "change"
    BY <1>1, <2>2 DEF Task
  <2>4. repeaterId[e] = w.target /\ \A r \in There : r # w.target => ~In(r)
    BY <1>1, <1>7 DEF Halfway
  <2>5. Halfway(e, task[t])'
    BY <1>1, <1>7, <2>1, <2>3, <2>4 DEF Halfway, Transferring
  <2>6. (t \in TasksOf(e))'
    BY <1>1, <1>7, <2>3 DEF TasksOf
  <2> QED
    BY <2>2, <2>5, <2>6
<1>8. CASE w.kind = "drop" /\ done
  <2>1. w.pc \in Transferring
    BY <1>8
  <2>2. Set(t, Idle) /\ repeaterId' = [repeaterId EXCEPT ![e] = None]
    BY <1>1, <1>8 DEF Return, Assign
  <2>3. \A r \in There : ~In(r)
    BY <1>1, <1>8, <2>1 DEF Halfway
  <2>4. repeaterId'[e] = None
    BY <2>2 DEF TablesOK
  <2> QED
    BY <1>1, <1>3, <2>2, <2>3, <2>4 DEF Agrees
<1>9. CASE w.kind = "release" /\ done
  <2>1. w.pc \in Transferring
    BY <1>9
  <2>2. /\ Set(t, [w EXCEPT !.pc = "change", !.kind = "take",
                            !.target = w.best])
        /\ repeaterId' = [repeaterId EXCEPT ![e] = w.best]
    BY <1>1, <1>9 DEF Return, Assign
  <2>3. /\ OthersSame(t)
        /\ task'[t] = [w EXCEPT !.pc = "change", !.kind = "take",
                                !.target = w.best]
    BY <2>2, SetSame DEF Set
  <2>4. /\ task'[t].kind = "take" /\ task'[t].target = w.best
        /\ task'[t].peer = w.peer /\ task'[t].pc = "change"
    BY <1>1, <2>3 DEF Task
  <2>5. \A r \in There : ~In(r)
    BY <1>1, <1>9, <2>1 DEF Halfway
  <2>6. repeaterId'[e] = w.best
    BY <2>2 DEF TablesOK
  <2>7. Halfway(e, task[t])'
    BY <1>1, <2>4, <2>5, <2>6 DEF Halfway, Transferring
  <2>8. (t \in TasksOf(e))'
    BY <1>1, <1>9, <2>4 DEF TasksOf
  <2> QED
    BY <2>3, <2>7, <2>8
<1>10. CASE w.kind = "reset"
  <2>1. Set(t, [w EXCEPT !.pc = "reset"]) /\ UNCHANGED repeaterId
    BY <1>10 DEF Return
  <2>2. OthersSame(t) /\ task'[t] = [w EXCEPT !.pc = "reset"]
    BY <2>1, SetSame DEF Set
  <2>3. /\ task'[t].kind = "reset" /\ task'[t].left = w.left
        /\ task'[t].pc = "reset"
    BY <1>1, <1>10, <2>2 DEF Task
  <2>4. /\ e \notin w.left => repeaterId[e] = None
        /\ \A r \in There \ w.left : ~In(r)
    BY <1>1, <1>10 DEF Halfway, Transferring
  <2>5. Halfway(e, task[t])'
    BY <1>1, <2>1, <2>3, <2>4 DEF Halfway
  <2>6. (t \in TasksOf(e))'
    BY <2>3 DEF TasksOf
  <2> QED
    BY <2>2, <2>5, <2>6
<1> QED
  BY <1>1, <1>2, <1>4, <1>5, <1>6, <1>7, <1>8, <1>9, <1>10 DEF Kinds

LEMMA ReturnRelated ==
  ASSUME TablesOK, TaskInv, RelationInv, NEW t \in Thread, NEW ok \in BOOLEAN,
         Return(t, ok), UNCHANGED repeated,
         ok => task[t].pc \in Transferring,
         \/ task[t].pc \in Transferring
         \/ task[t].pc = "change" /\ task[t].kind \in {"add", "take"}
  PROVE  RelationInv'
<1>1. SUFFICES ASSUME NEW e \in clean' \cap present' PROVE Related(e)'
  BY DEF RelationInv
<1>2. e \in clean \cap present /\ present' \subseteq present /\ e \in Peer
  BY ReturnTables DEF TablesOK
<1>3. Related(e)
  BY <1>2 DEF RelationInv
<1>4. PICK new \in Task : task' = [task EXCEPT ![t] = new]
  BY ReturnTask
<1>5. OthersSame(t)
  BY <1>4, SetSame
<1>6. CASE t \in TasksOf(e)
  BY <1>2, <1>3, <1>6, ReturnOwn
<1>7. CASE t \notin TasksOf(e)
  BY <1>2, <1>3, <1>5, <1>7, ReturnElsewhere, Elsewhere
<1> QED
  BY <1>6, <1>7
LEMMA ChangeRelated ==
  ASSUME TablesOK, TaskInv, RelationInv, NEW t \in Thread, Change(t)
  PROVE  RelationInv'
<1> DEFINE w == task[t]
<1>1. /\ w \in Task /\ w.pc = "change" /\ w.target \in Repeater
      /\ w.kind \in Kinds /\ None \notin Repeater
  BY NoPeerIsNone, MeshingAssumption DEF Change, TaskInv, GoodTask
<1>2. CASE Return(t, FALSE) /\ Full(w) /\ UNCHANGED repeated
  BY <1>1, <1>2, ReturnRelated DEF Full
<1>3. CASE ~(Full(w) /\ Return(t, FALSE))
  <2>1. /\ UNCHANGED <<present, repeaterId, clean>>
        /\ repeated' = [repeated EXCEPT ![w.target] =
             IF w.kind = "reset" THEN {}
             ELSE IF w.kind \in Removing THEN @ \ {w.peer}
             ELSE @ \cup {w.peer}]
    BY <1>3 DEF Change
  <2>2. task' = [u \in Thread |->
          IF u = t THEN [w EXCEPT !.pc = "copy",
                           !.lone = (TransfersTo(w.target) \ {t} = {})]
          ELSE IF u \in TransfersTo(w.target) \ {t}
               THEN [task[u] EXCEPT !.lone = FALSE]
          ELSE task[u]]
    BY <1>3 DEF Change
  <2>3. OthersSame(t)
    BY <2>2 DEF OthersSame, Same, TaskInv, Task
  <2>4. /\ task'[t].pc = "copy" /\ task'[t].kind = w.kind
        /\ task'[t].peer = w.peer /\ task'[t].target = w.target
        /\ task'[t].left = w.left
    BY <1>1, <2>2 DEF Task
  <2>5. SUFFICES ASSUME NEW e \in clean \cap present PROVE Related(e)'
    BY <2>1 DEF RelationInv
  <2>6. e \in Peer /\ Related(e)
    BY DEF RelationInv, TablesOK
  <2>7. \A r \in Repeater :
          /\ r # w.target => repeated'[r] = repeated[r]
          /\ w.kind = "reset" => repeated'[w.target] = {}
          /\ w.kind \in Removing => repeated'[w.target] = repeated[w.target] \ {w.peer}
          /\ w.kind \in {"add", "take"} =>
               repeated'[w.target] = repeated[w.target] \cup {w.peer}
    BY <1>1, <2>1 DEF TablesOK, Removing
  <2>8. CASE t \notin TasksOf(e)
    <3>1. w.kind # "reset" /\ w.peer # e
      BY <1>1, <2>8 DEF TasksOf
    <3>2. (t \notin TasksOf(e))'
      BY <2>4, <3>1 DEF TasksOf
    <3>3. \A r \in Repeater : e \in repeated'[r] <=> e \in repeated[r]
      BY <1>1, <2>7, <3>1 DEF Kinds, Removing
    <3> QED
      BY <2>1, <2>3, <2>6, <2>8, <3>2, <3>3, Elsewhere
  <2>9. CASE t \in TasksOf(e)
    <3>1. /\ \A u \in TasksOf(e) : u = t
          /\ Halfway(e, w)
          /\ w.kind # "reset" => w.peer = e
      BY <2>6, <2>9 DEF Related, TasksOf
    <3>2. (t \in TasksOf(e))'
      BY <2>4, <2>9 DEF TasksOf
    <3>3. Halfway(e, task[t])'
      <4>1. CASE w.kind = "add"
        BY <1>1, <2>1, <2>4, <2>7, <3>1, <4>1 DEF Halfway, Transferring
      <4>2. CASE w.kind = "take"
        BY <1>1, <2>1, <2>4, <2>7, <3>1, <4>2 DEF Halfway, Transferring
      <4>3. CASE w.kind = "remove"
        BY <1>1, <2>1, <2>4, <2>7, <3>1, <4>3 DEF Halfway, Transferring, Removing
      <4>4. CASE w.kind \in {"drop", "release"}
        BY <1>1, <2>1, <2>4, <2>7, <3>1, <4>4 DEF Halfway, Transferring, Removing
      <4>5. CASE w.kind = "reset"
        BY <1>1, <2>1, <2>4, <2>7, <3>1, <4>5 DEF Halfway, Transferring
      <4>6. CASE w.kind = "delete"
        BY <2>4, <4>6 DEF Halfway
      <4> QED
        BY <1>1, <4>1, <4>2, <4>3, <4>4, <4>5, <4>6 DEF Kinds
    <3> QED
      BY <2>3, <3>1, <3>2, <3>3, Own
  <2> QED
    BY <2>8, <2>9
<1> QED
  BY <1>2, <1>3 DEF Change, tables

(* A step inside a transfer.                                               *)
LEMMA InsideRelated ==
  ASSUME TaskInv, RelationInv, NEW t \in Thread,
         CopyTable(t) \/ Sent(t)
  PROVE  RelationInv'
<1> DEFINE w == task[t]
<1>1. /\ w \in Task /\ w.pc \in Transferring
      /\ UNCHANGED <<present, repeaterId, repeated, clean>>
  BY DEF TaskInv, CopyTable, Sent, Transferring, tables
<1>2. PICK pc \in {"clear", "fill"}, copy \in {w.copy, repeated[w.target]} :
        task' = [task EXCEPT ![t] = [w EXCEPT !.pc = pc, !.copy = copy]]
  <2>1. CASE CopyTable(t)
    BY <2>1 DEF CopyTable, Set
  <2>2. CASE Sent(t)
    <3>1. [w EXCEPT !.pc = "fill"] = [w EXCEPT !.pc = "fill", !.copy = w.copy]
      BY <1>1 DEF Task
    <3> QED
      BY <2>2, <3>1 DEF Sent, Set
  <2> QED
    BY <2>1, <2>2
<1>3. OthersSame(t) /\ task'[t] = [w EXCEPT !.pc = pc, !.copy = copy]
  BY <1>2, SetSame
<1>4. /\ task'[t].pc = pc /\ task'[t].kind = w.kind
      /\ task'[t].peer = w.peer /\ task'[t].target = w.target
      /\ task'[t].left = w.left
  BY <1>1, <1>3 DEF Task
<1>5. SUFFICES ASSUME NEW e \in clean \cap present PROVE Related(e)'
  BY <1>1 DEF RelationInv
<1>6. Related(e) /\ ((t \in TasksOf(e))' <=> t \in TasksOf(e))
  BY <1>1, <1>4 DEF RelationInv, TasksOf, Transferring
<1>7. CASE t \notin TasksOf(e)
  BY <1>1, <1>3, <1>6, <1>7, Elsewhere
<1>8. CASE t \in TasksOf(e)
  <2>1. (\A u \in TasksOf(e) : u = t) /\ Halfway(e, w)
    BY <1>6, <1>8 DEF Related
  <2>2. Halfway(e, task[t])'
    BY <1>1, <1>4, <2>1 DEF Halfway, Transferring
  <2> QED
    BY <1>3, <1>6, <1>8, <2>1, <2>2, Own
<1> QED
  BY <1>7, <1>8

LEMMA CallRelated ==
  ASSUME TablesOK, TaskInv, RelationInv, NEW t \in Rpc,
         \/ AddMeshingEntry(t) \/ RemoveMeshingEntry(t)
         \/ ResetMeshingTables(t) \/ DeletePeer(t)
  PROVE  RelationInv'
<1>1. t \in Thread /\ task[t].pc = "idle" /\ None \notin Repeater
  BY NoPeerIsNone, MeshingAssumption
     DEF Thread, AddMeshingEntry, RemoveMeshingEntry, ResetMeshingTables,
         DeletePeer, Call
<1>2. ASSUME NEW kind \in {"add", "remove", "delete"}, NEW p, NEW r,
             Begin(t, {p}, Job(kind, p, r)),
             kind = "add" /\ p \in present => repeaterId[p] = None
      PROVE  RelationInv'
  <2>1. SUFFICES ASSUME NEW e \in clean' \cap present' PROVE Related(e)'
    BY DEF RelationInv
  <2> DEFINE new == Job(kind, p, r)
  <2>2. /\ new.kind = kind /\ new.peer = p /\ new.pc = "change"
        /\ new.target = r
    BY DEF Job, Idle
  <2>3. e \in present
    BY <1>2 DEF Begin
  <2>4. ASSUME e \in {p}, Agrees(e) PROVE Halfway(e, new)
    BY <1>1, <1>2, <2>2, <2>3, <2>4 DEF Halfway, Agrees, Transferring
  <2>5. Begin(t, {p}, new)
    BY <1>2
  <2> HIDE DEF new
  <2>6. e \notin {p} => new.peer # e /\ new.kind # "reset"
    BY <1>2, <2>2
  <2> QED
    BY <1>1, <2>4, <2>5, <2>6, BeginRelated
<1>3. CASE AddMeshingEntry(t)
  BY <1>2, <1>3 DEF AddMeshingEntry
<1>4. CASE RemoveMeshingEntry(t)
  BY <1>2, <1>4 DEF RemoveMeshingEntry
<1>5. CASE ResetMeshingTables(t)
  <2>1. SUFFICES ASSUME NEW e \in clean' \cap present' PROVE Related(e)'
    BY DEF RelationInv
  <2>2. PICK new : /\ new = [Idle EXCEPT !.pc = "reset", !.kind = "reset",
                                        !.left = present]
                   /\ Begin(t, Peer, new)
    BY <1>5 DEF ResetMeshingTables
  <2>3. new.pc = "reset" /\ new.kind = "reset" /\ new.left = present
    BY <2>2 DEF Idle
  <2>4. e \in present /\ e \in Peer
    BY <2>2 DEF Begin, TablesOK
  <2>5. Halfway(e, new)
    BY <2>3, <2>4 DEF Halfway, Transferring
  <2> QED
    BY <1>1, <2>2, <2>4, <2>5, BeginRelated
<1>6. CASE DeletePeer(t)
  <2>1. CASE \E p \in present : Begin(t, {p}, Job("delete", p, repeaterId[p]))
    BY <1>2, <2>1
  <2>2. CASE /\ present' \subseteq present
             /\ UNCHANGED <<repeaterId, repeated, task, clean>>
    BY <2>2 DEF RelationInv, Related, TasksOf, Agrees, Halfway
  <2> QED
    BY <1>6, <2>1, <2>2 DEF DeletePeer, tables
<1> QED
  BY <1>3, <1>4, <1>5, <1>6

LEMMA ResetRelated ==
  ASSUME TablesOK, TaskInv, RelationInv, NEW t \in Rpc, ResetPeer(t)
  PROVE  RelationInv'
<1> DEFINE w == task[t]
<1>1. /\ t \in Thread /\ w \in Task /\ w.pc = "reset" /\ w.kind = "reset"
      /\ UNCHANGED <<present, repeated, clean>>
  BY DEF ResetPeer, TaskInv, GoodTask, Thread, tables
<1>2. SUFFICES ASSUME NEW e \in clean \cap present PROVE Related(e)'
  BY <1>1 DEF RelationInv
<1>3. e \in Peer /\ None \notin Repeater
  BY NoPeerIsNone, MeshingAssumption DEF TablesOK
<1>4. (\A u \in TasksOf(e) : u = t) /\ Halfway(e, w)
  BY <1>1 DEF RelationInv, Related, TasksOf
<1>5. /\ e \notin w.left => repeaterId[e] = None
      /\ \A r \in (Repeater \cap present) \ w.left : e \notin repeated[r]
  BY <1>1, <1>4 DEF Halfway
<1>6. CASE w.left = {} /\ Set(t, Idle) /\ UNCHANGED repeaterId
  <2>1. OthersSame(t) /\ task'[t] = Idle
    BY <1>1, <1>6, SetSame DEF Set, Idle
  <2>2. (t \notin TasksOf(e))' /\ Agrees(e)'
    BY <1>1, <1>3, <1>5, <1>6, <2>1 DEF TasksOf, Idle, Agrees
  <2> QED
    BY <1>1, <1>4, <2>1, <2>2, Own
<1>7. ASSUME NEW p \in w.left, Assign(p, None),
             Set(t, [w EXCEPT !.left = @ \ {p}, !.target = p,
                              !.pc = IF p \in Repeater THEN "change" ELSE @])
      PROVE  Related(e)'
  <2>1. /\ OthersSame(t)
        /\ task'[t] = [w EXCEPT !.left = @ \ {p}, !.target = p,
                                !.pc = IF p \in Repeater THEN "change" ELSE @]
    BY <1>1, <1>7, SetSame DEF Set
  <2>2. /\ task'[t].kind = "reset" /\ task'[t].left = w.left \ {p}
        /\ task'[t].target = p /\ task'[t].pc \in {"reset", "change"}
        /\ p \in Repeater => task'[t].pc = "change"
    BY <1>1, <2>1 DEF Task
  <2>3. repeaterId'[e] = IF e = p THEN None ELSE repeaterId[e]
    BY <1>3, <1>7 DEF Assign, TablesOK
  <2>4. Halfway(e, task[t])'
    BY <1>1, <1>5, <2>2, <2>3 DEF Halfway, Transferring
  <2>5. (t \in TasksOf(e))'
    BY <1>1, <2>2 DEF TasksOf
  <2> QED
    BY <1>1, <1>4, <2>1, <2>4, <2>5, Own
<1> QED
  BY <1>6, <1>7 DEF ResetPeer

(* The steps of a check.                                                   *)
LEMMA CheckRelated ==
  ASSUME TablesOK, TaskInv, RelationInv,
         Check \/ Quit \/ DropRepeater \/ FindRepeater \/ TakeRepeater
  PROVE  RelationInv'
<1> DEFINE w == task[Pinger]
           q == w.peer
<1>1. Pinger \in Thread /\ w \in Task /\ GoodTask(w) /\ None \notin Repeater
  BY NoPeerIsNone, MeshingAssumption DEF TaskInv, Thread
<1>2. CASE Check
  <2>1. SUFFICES ASSUME NEW e \in clean' \cap present' PROVE Related(e)'
    BY DEF RelationInv
  <2>2. PICK p, new : /\ new = [Idle EXCEPT !.pc = "decide", !.kind = "take",
                                           !.peer = p]
                      /\ Begin(Pinger, {p}, new)
    BY <1>2 DEF Check
  <2>3. new.pc = "decide" /\ new.kind = "take" /\ new.peer = p
    BY <2>2 DEF Idle
  <2>4. Agrees(e) => Halfway(e, new)
    BY <2>3 DEF Halfway, Transferring
  <2>5. w.pc = "idle"
    BY <1>2 DEF Check
  <2> QED
    BY <1>1, <2>2, <2>3, <2>4, <2>5, BeginRelated
<1>3. ASSUME NEW new, task' = [task EXCEPT ![Pinger] = new],
             w.pc \in {"decide", "found"},
             UNCHANGED <<present, repeated, clean>>,
             repeaterId' \in [Peer -> Repeater \cup {None}],
             \A p \in Peer \ {q} : repeaterId'[p] = repeaterId[p],
             new.pc # "idle" => new.peer = q /\ new.kind # "reset",
             \A p \in clean \cap present : p = q /\ Agrees(p) =>
               /\ new.pc = "idle" => Agrees(p)'
               /\ new.pc # "idle" => Halfway(p, task[Pinger])'
      PROVE  RelationInv'
  <2>1. SUFFICES ASSUME NEW e \in clean \cap present PROVE Related(e)'
    BY <1>3 DEF RelationInv
  <2>2. e \in Peer /\ Related(e)
    BY DEF RelationInv, TablesOK
  <2>3. OthersSame(Pinger) /\ task'[Pinger] = new
    BY <1>1, <1>3, SetSame
  <2>4. w.kind = "take"
    BY <1>1, <1>3 DEF GoodTask
  <2>5. CASE e = q
    <3>1. Pinger \in TasksOf(e)
      BY <1>1, <1>3, <2>5 DEF TasksOf
    <3>2. (\A u \in TasksOf(e) : u = Pinger) /\ Agrees(e)
      BY <1>3, <2>2, <3>1 DEF Related, Halfway
    <3>3. (Pinger \in TasksOf(e))' <=> new.pc # "idle"
      BY <1>1, <1>3, <2>3, <2>5 DEF TasksOf
    <3> QED
      BY <1>1, <1>3, <2>3, <2>5, <3>2, <3>3, Own
  <2>6. CASE e # q
    <3>1. Pinger \notin TasksOf(e) /\ (Pinger \notin TasksOf(e))'
      BY <1>3, <2>3, <2>4, <2>6 DEF TasksOf
    <3> QED
      BY <1>1, <1>3, <2>2, <2>3, <2>6, <3>1, Elsewhere
  <2> QED
    BY <2>5, <2>6
<1>4. CASE Quit
  <2>1. PICK new : new = Idle /\ task' = [task EXCEPT ![Pinger] = new]
    BY <1>4 DEF Quit, Set
  <2>2. /\ new.pc = "idle" /\ w.pc \in {"decide", "found"}
        /\ UNCHANGED <<present, repeaterId, repeated, clean>>
    BY <1>4, <2>1 DEF Quit, Idle, tables
  <2>3. ASSUME NEW p \in clean \cap present, p = q, Agrees(p)
        PROVE  Agrees(p)'
    BY <2>2, <2>3 DEF Agrees
  <2>4. /\ repeaterId' \in [Peer -> Repeater \cup {None}]
        /\ \A p \in Peer \ {q} : repeaterId'[p] = repeaterId[p]
    BY <2>2 DEF TablesOK
  <2>5. UNCHANGED <<present, repeated, clean>>
    BY <2>2
  <2> QED
    BY <1>3, <2>1, <2>2, <2>3, <2>4, <2>5
<1>5. ASSUME NEW kind \in {"drop", "release"}, Leave(kind, w),
             w.pc \in {"decide", "found"},
             UNCHANGED <<present, repeaterId, repeated, clean>>
      PROVE  RelationInv'
  <2>1. PICK unreach :
          task' = [task EXCEPT ![Pinger] =
                    [w EXCEPT !.pc = "change", !.kind = kind, !.tries = 1,
                              !.target = repeaterId[q], !.unreach = unreach]]
    BY <1>5 DEF Leave, Set
  <2>2. PICK new :
          /\ new = [w EXCEPT !.pc = "change", !.kind = kind, !.tries = 1,
                             !.target = repeaterId[q], !.unreach = unreach]
          /\ task' = [task EXCEPT ![Pinger] = new]
    BY <2>1
  <2>3. /\ new.pc = "change" /\ new.kind = kind /\ new.peer = q
        /\ new.target = repeaterId[q]
        /\ task'[Pinger] = new
    BY <1>1, <2>2, SetSame DEF Task
  <2>4. ASSUME NEW p \in clean \cap present, p = q, Agrees(p)
        PROVE  Halfway(p, task[Pinger])'
    BY <1>5, <2>3, <2>4 DEF Halfway, Agrees, Transferring
  <2> QED
    BY <1>3, <1>5, <2>2, <2>3, <2>4 DEF TablesOK
<1>6. CASE DropRepeater
  BY <1>5, <1>6 DEF DropRepeater, tables
<1>7. CASE FindRepeater
  <2>1. PICK r, new : /\ new = [w EXCEPT !.pc = "found", !.best = r]
                      /\ task' = [task EXCEPT ![Pinger] = new]
    BY <1>7 DEF FindRepeater, Set
  <2>2. /\ w.pc = "decide"
        /\ UNCHANGED <<present, repeaterId, repeated, clean>>
    BY <1>7 DEF FindRepeater, tables
  <2>3. /\ new.pc = "found" /\ new.kind = "take" /\ new.peer = q
        /\ task'[Pinger] = new
    BY <1>1, <2>1, <2>2, SetSame DEF Task, GoodTask
  <2>4. ASSUME NEW p \in clean \cap present, p = q, Agrees(p)
        PROVE  Halfway(p, task[Pinger])'
    BY <2>2, <2>3, <2>4 DEF Halfway, Agrees, Transferring
  <2> QED
    BY <1>3, <2>1, <2>2, <2>3, <2>4 DEF TablesOK
<1>8. CASE TakeRepeater
  <2>1. /\ w.pc = "found" /\ w.kind = "take" /\ w.best \in Repeater
        /\ q \in Peer
        /\ UNCHANGED <<present, repeated, clean>>
    BY <1>1, <1>8 DEF TakeRepeater, tables, GoodTask
  <2>2. CASE Leave("release", w) /\ UNCHANGED repeaterId
    BY <1>5, <2>1, <2>2
  <2>3. CASE /\ repeaterId[q] \notin present
             /\ Set(Pinger, [w EXCEPT !.pc = "change", !.target = w.best])
             /\ Assign(q, w.best)
    <3>1. PICK new : /\ new = [w EXCEPT !.pc = "change", !.target = w.best]
                     /\ task' = [task EXCEPT ![Pinger] = new]
      BY <2>3 DEF Set
    <3>2. /\ new.pc = "change" /\ new.kind = "take" /\ new.peer = q
          /\ new.target = w.best
          /\ task'[Pinger] = new
      BY <1>1, <2>1, <3>1, SetSame DEF Task
    <3>3. /\ repeaterId' \in [Peer -> Repeater \cup {None}]
          /\ \A p \in Peer \ {q} : repeaterId'[p] = repeaterId[p]
          /\ repeaterId'[q] = w.best
      BY <2>1, <2>3 DEF Assign, TablesOK
    <3>4. ASSUME NEW p \in clean \cap present, p = q, Agrees(p)
          PROVE  Halfway(p, task[Pinger])'
      <4>1. /\ repeaterId'[p] = task'[Pinger].target
            /\ \A r \in Repeater \cap present' : p \notin repeated'[r]
        BY <2>1, <2>3, <3>2, <3>3, <3>4 DEF Agrees
      <4> QED
        BY <3>2, <4>1 DEF Halfway, Transferring
    <3> QED
      BY <1>3, <2>1, <3>1, <3>2, <3>3, <3>4
  <2> QED
    BY <1>8, <2>2, <2>3 DEF TakeRepeater
<1> QED
  BY <1>2, <1>4, <1>6, <1>7, <1>8

LEMMA RelationStep ==
  ASSUME TablesOK, TaskInv, TableAgrees, RelationInv, [Next]_vars
  PROVE  RelationInv'
<1>1. ASSUME NEW t \in Thread, Failed(t) PROVE RelationInv'
  BY <1>1, ReturnRelated DEF Failed, Transferring
<1>2. ASSUME NEW t \in Thread, SaveTable(t) PROVE RelationInv'
  BY <1>2, ReturnRelated DEF SaveTable, Transferring
<1>3. CASE MeshingRestart
  <2>1. SUFFICES ASSUME NEW e \in clean' \cap present' PROVE Related(e)'
    BY DEF RelationInv
  <2>2. /\ task' = [t \in Thread |-> Idle] /\ repeated' = saved
        /\ e \in clean \cap present /\ TasksOf(e) = {} /\ dirty = {}
        /\ \A r \in Repeater : TransfersTo(r) = {}
        /\ UNCHANGED <<present, repeaterId>>
    BY <1>3 DEF MeshingRestart
  <2>3. \A r \in Repeater : saved[r] = repeated[r]
    BY <2>2 DEF TableAgrees
  <2>4. Agrees(e)
    BY <2>2 DEF RelationInv, Related
  <2>5. Agrees(e)'
    BY <2>2, <2>3, <2>4 DEF Agrees
  <2>6. TasksOf(e)' = {}
    BY <2>2 DEF TasksOf, Idle
  <2> QED
    BY <2>5, <2>6 DEF Related
<1>4. CASE UNCHANGED meshingVars
  BY <1>4 DEF meshingVars, RelationInv, Related, TasksOf, Agrees, Halfway
<1> QED
  BY <1>1, <1>2, <1>3, <1>4, MeshingSteps, ChangeRelated, InsideRelated,
     CallRelated, ResetRelated, CheckRelated
-----------------------------------------------------------------------------
(* Updates.                                                                *)

(* A device keeps the new firmware, and goes back to the old one only by   *)
(* leaving the bootloader.                                                 *)
Forward ==
  /\ left \subseteq left'
  /\ \A p \in Updatable :
       /\ node[p] = New => node'[p] = New
       /\ node[p] # Old => node'[p] # Old \/ p \in left'

LEMMA Blocks ==
  /\ LastBlock \in Nat /\ 1 \in Block /\ Old \notin Block /\ New \notin Block
  /\ Old # New
  /\ \A b \in Block : b + 1 \in Block \cup {New}
  /\ MaxBlockRetries \in Nat \ {0} /\ MaxTotalRetries \in Nat \ {0}
  BY FirmwareAssumption DEF Block, Old, New

LEMMA SeqWithin ==
  ASSUME NEW S, NEW T, S \subseteq T, NEW s \in Seq(S)
  PROVE  s \in Seq(T)
  OBVIOUS

LEMMA ForwardEntries ==
  ASSUME Forward
  PROVE  GoodEntry \subseteq GoodEntry'
  BY DEF Forward, GoodEntry, Entries, Accounted

LEMMA ForwardUpdates ==
  ASSUME Forward, NEW w \in Update
  PROVE  w \in Update'
<1>1. \A s \in Seq(GoodEntry) : s \in Seq(GoodEntry)'
  BY ForwardEntries, SeqWithin
<1> QED
  BY <1>1 DEF Update

LEMMA NoUpdateIsUpdate == NoUpdate \in Update /\ GoodUpdate(NoUpdate)
  BY DEF NoUpdate, Update, GoodUpdate

LEMMA PutUpdate ==
  ASSUME UpdateInv, Forward, NEW u \in {Updater, Worker}, NEW new,
         new \in Update', GoodUpdate(new), Put(u, new)
  PROVE  UpdateInv'
<1>1. \A v \in {Updater, Worker} :
        update'[v] = IF v = u THEN new ELSE update[v]
  BY DEF UpdateInv, Put
<1>2. \A v \in {Updater, Worker} : update'[v] \in Update'
  BY <1>1, ForwardUpdates DEF UpdateInv
<1> QED
  BY <1>1, <1>2 DEF UpdateInv, Put

FirmwareInv == UpdateInv /\ DeviceInv /\ VersionIsTrue

(* The devices stay as they are.                                           *)
LEMMA Standing ==
  ASSUME UpdateInv, DeviceInv, VersionIsTrue, UNCHANGED <<node, version, left>>,
         NEW u \in {Updater, Worker}, NEW new \in Update, GoodUpdate(new),
         Put(u, new)
  PROVE  FirmwareInv'
<1>1. Forward
  BY DEF Forward
<1>2. UpdateInv'
  BY <1>1, PutUpdate, ForwardUpdates
<1> QED
  BY <1>2 DEF FirmwareInv, DeviceInv, VersionIsTrue
LEMMA FinishPut ==
  ASSUME UpdateInv, NEW u \in {Updater, Worker}, NEW ok, Finish(u, ok)
  PROVE  \E new \in Update : GoodUpdate(new) /\ Put(u, new)
<1> DEFINE w == update[u]
<1>1. w \in Update
  BY DEF UpdateInv
<1>2. ASSUME Put(u, [NoUpdate EXCEPT !.pc = "fallback", !.rest = w.ids,
                                     !.single = w.single])
      PROVE  \E new \in Update : GoodUpdate(new) /\ Put(u, new)
  <2> DEFINE new == [NoUpdate EXCEPT !.pc = "fallback", !.rest = w.ids,
                                     !.single = w.single]
  <2>1. new \in Update /\ GoodUpdate(new)
    BY <1>1, NoUpdateIsUpdate DEF Update, GoodUpdate
  <2> QED
    BY <1>2, <2>1
<1>3. ASSUME Put(u, [NoUpdate EXCEPT !.pc = "group"])
      PROVE  \E new \in Update : GoodUpdate(new) /\ Put(u, new)
  <2> DEFINE new == [NoUpdate EXCEPT !.pc = "group"]
  <2>1. new \in Update /\ GoodUpdate(new)
    BY NoUpdateIsUpdate DEF Update, GoodUpdate
  <2> QED
    BY <1>3, <2>1
<1> QED
  BY <1>2, <1>3 DEF Finish

(* What prepares an update, ends it, or starts the next group.             *)
LEMMA PreparationStep ==
  ASSUME UpdateInv, DeviceInv, VersionIsTrue, NEW u \in {Updater, Worker},
         \/ TestUpdating(u) \/ SortIds(u) \/ NextGroup(u) \/ BeginUpdate(u)
         \/ AllEntered(u) \/ ChooseBlock(u)
  PROVE  FirmwareInv'
<1> DEFINE w == update[u]
<1>1. w \in Update /\ GoodUpdate(w)
  BY DEF UpdateInv
<1>2. UNCHANGED <<node, version, left>>
  BY DEF TestUpdating, SortIds, NextGroup, BeginUpdate, AllEntered, ChooseBlock
<1>3. ASSUME NEW new \in Update, GoodUpdate(new), Put(u, new)
      PROVE  FirmwareInv'
  BY <1>2, <1>3, Standing
<1>4. CASE TestUpdating(u)
  <2> DEFINE new == [w EXCEPT !.pc = "set"]
  <2>1. w.pc = "test"
    BY <1>4 DEF TestUpdating
  <2>2. new \in Update /\ GoodUpdate(new)
    BY <1>1, <2>1 DEF Update, GoodUpdate
  <2> QED
    BY <1>3, <1>4, <2>2, NoUpdateIsUpdate DEF TestUpdating
<1>5. CASE SortIds(u)
  <2> DEFINE New1(b) == [w EXCEPT !.pc = "group", !.wide = b,
                                  !.single = (w.ids \cap present) \ b]
  <2>1. PICK b \in SUBSET (w.ids \cap present) : Put(u, New1(b)) /\ w.pc = "set"
    BY <1>5 DEF SortIds
  <2>2. New1(b) \in Update /\ GoodUpdate(New1(b))
    BY <1>1, <2>1 DEF Update, GoodUpdate
  <2> QED
    BY <1>3, <2>1, <2>2
<1>6. CASE NextGroup(u)
  <2> DEFINE Group(ids, broadcast) ==
               [NoUpdate EXCEPT !.pc = "begin", !.ids = ids, !.rest = ids,
                                !.single = w.single \ ids,
                                !.broadcast = broadcast]
  <2>1. CASE Put(u, NoUpdate)
    BY <1>3, <2>1, NoUpdateIsUpdate
  <2>2. ASSUME NEW ids \in SUBSET Updatable, NEW broadcast \in BOOLEAN,
               Put(u, Group(ids, broadcast))
        PROVE  FirmwareInv'
    <3>1. /\ Group(ids, broadcast) \in Update
          /\ GoodUpdate(Group(ids, broadcast))
      BY <1>1, <2>2, NoUpdateIsUpdate DEF Update, GoodUpdate
    <3> QED
      BY <1>3, <2>2, <3>1
  <2>3. w.wide \in SUBSET Updatable /\ \A p \in w.single : {p} \in SUBSET Updatable
    BY <1>1 DEF Update
  <2> QED
    BY <1>6, <2>1, <2>2, <2>3 DEF NextGroup
<1>7. CASE BeginUpdate(u)
  <2> DEFINE new == [w EXCEPT !.pc = "enter"]
  <2>1. w.pc = "begin"
    BY <1>7 DEF BeginUpdate
  <2>2. new \in Update /\ GoodUpdate(new)
    BY <1>1, <2>1 DEF Update, GoodUpdate
  <2> QED
    BY <1>3, <1>7, <2>2, FinishPut DEF BeginUpdate
<1>8. CASE AllEntered(u)
  <2> DEFINE new == [w EXCEPT !.pc = "choose", !.list = w.fresh \o w.old,
                              !.fresh = <<>>, !.old = <<>>]
  <2>1. w.pc = "enter"
    BY <1>8 DEF AllEntered
  <2>2. w.fresh \o w.old \in Seq(GoodEntry) /\ <<>> \in Seq(GoodEntry)
    BY <1>1 DEF Update
  <2>3. new \in Update /\ GoodUpdate(new)
    BY <1>1, <2>1, <2>2 DEF Update, GoodUpdate
  <2> QED
    BY <1>3, <1>8, <2>3, FinishPut DEF AllEntered
<1>9. CASE ChooseBlock(u)
  <2>1. w.pc = "choose"
    BY <1>9 DEF ChooseBlock
  <2>2. ASSUME NEW i \in ActiveIn(w) PROVE w.list[i].block \in Block
    BY <2>2 DEF ActiveIn, Active
  <2>3. CASE Put(u, [w EXCEPT !.pc = "end"])
    <3>1. /\ [w EXCEPT !.pc = "end"] \in Update
          /\ GoodUpdate([w EXCEPT !.pc = "end"])
      BY <1>1, <2>1 DEF Update, GoodUpdate
    <3> QED
      BY <1>3, <2>3, <3>1
  <2>4. CASE /\ ActiveIn(w) # {}
             /\ w.repeat \/ {i \in ActiveIn(w) : w.list[i].block # w.block} = {}
             /\ Put(u, [w EXCEPT !.pc = "send"])
    <3>1. w.block \in Block
      BY <1>1, <2>2, <2>4 DEF GoodUpdate
    <3>2. /\ [w EXCEPT !.pc = "send"] \in Update
          /\ GoodUpdate([w EXCEPT !.pc = "send"])
      BY <1>1, <2>1, <3>1 DEF Update, GoodUpdate
    <3> QED
      BY <1>3, <2>4, <3>2
  <2>5. ASSUME NEW i \in ActiveIn(w),
               Put(u, [w EXCEPT !.pc = "send", !.block = w.list[i].block])
        PROVE  FirmwareInv'
    <3> DEFINE new == [w EXCEPT !.pc = "send", !.block = w.list[i].block]
    <3>1. new \in Update /\ GoodUpdate(new)
      BY <1>1, <2>1, <2>2 DEF Update, GoodUpdate
    <3> QED
      BY <1>3, <2>5, <3>1
  <2> QED
    BY <1>9, <2>3, <2>4, <2>5 DEF ChooseBlock
<1> QED
  BY <1>4, <1>5, <1>6, <1>7, <1>8, <1>9

(* Who answers in its new firmware is set to its version.                  *)
LEMMA FallbackStep ==
  ASSUME UpdateInv, DeviceInv, VersionIsTrue, NEW u \in {Updater, Worker},
         Fallback(u)
  PROVE  FirmwareInv'
<1> DEFINE w == update[u]
<1>1. w \in Update /\ GoodUpdate(w) /\ w.pc = "fallback"
  BY DEF UpdateInv, Fallback
<1>2. PICK new \in Update : GoodUpdate(new) /\ Put(u, new)
  <2>1. /\ [w EXCEPT !.pc = "group"] \in Update
        /\ GoodUpdate([w EXCEPT !.pc = "group"])
    BY <1>1 DEF Update, GoodUpdate
  <2>2. ASSUME NEW p PROVE /\ [w EXCEPT !.rest = @ \ {p}] \in Update
                           /\ GoodUpdate([w EXCEPT !.rest = @ \ {p}])
    BY <1>1 DEF Update, GoodUpdate
  <2> QED
    BY <2>1, <2>2 DEF Fallback
<1>3. UNCHANGED <<node, left>>
  BY DEF Fallback
<1>4. UpdateInv'
  BY <1>2, <1>3, PutUpdate, ForwardUpdates DEF Forward
<1>5. \/ UNCHANGED version
      \/ \E p \in Updatable : version' = [version EXCEPT ![p] =
                        CASE node[p] \in Block -> "boot"
                          [] node[p] = Old -> "old"
                          [] node[p] = New -> "new"]
  BY <1>1 DEF Fallback, Update
<1>6. CASE UNCHANGED version
  BY <1>3, <1>4, <1>6 DEF FirmwareInv, DeviceInv, VersionIsTrue
<1>7. ASSUME NEW p \in Updatable,
             version' = [version EXCEPT ![p] =
                          CASE node[p] \in Block -> "boot"
                            [] node[p] = Old -> "old"
                            [] node[p] = New -> "new"]
      PROVE  FirmwareInv'
  <2>1. PICK v \in {"old", "boot", "new"} :
          /\ version' = [version EXCEPT ![p] = v]
          /\ v = "new" => node[p] = New
    BY <1>7, Blocks DEF DeviceInv
  <2>2. DeviceInv' /\ VersionIsTrue'
    BY <1>3, <2>1 DEF DeviceInv, VersionIsTrue
  <2> QED
    BY <1>4, <2>2 DEF FirmwareInv
<1> QED
  BY <1>5, <1>6, <1>7

(* Into the bootloader.                                                    *)
LEMMA EnterStep ==
  ASSUME UpdateInv, DeviceInv, VersionIsTrue, NEW u \in {Updater, Worker},
         NEW p \in Updatable,
         EnterNot(u, p) \/ EnterNew(u, p) \/ EnterBootloader(u, p)
  PROVE  FirmwareInv'
<1> DEFINE w == update[u]
<1>1. w \in Update /\ GoodUpdate(w) /\ w.pc = "enter" /\ UNCHANGED left
  BY DEF UpdateInv, EnterNot, EnterNew, EnterBootloader, Entered
<1>2. /\ node' \in {node, [node EXCEPT ![p] = 1]}
      /\ node' # node => node[p] = Old
      /\ version' # version =>
           version' = [version EXCEPT ![p] = "new"] /\ node[p] = New
  BY DEF EnterNot, EnterNew, EnterBootloader
<1>3. Forward /\ DeviceInv' /\ VersionIsTrue'
  BY <1>1, <1>2, Blocks DEF Forward, DeviceInv, VersionIsTrue
<1>4. w \in Update'
  BY <1>1, <1>3, ForwardUpdates
<1>5. ASSUME NEW x \in Update', x.pc = "enter", GoodUpdate(x), Entered(u, p, x)
      PROVE  UpdateInv'
  <2> DEFINE new == [x EXCEPT !.rest = @ \ {p}]
  <2>1. new \in Update' /\ GoodUpdate(new)
    BY <1>5 DEF Update, GoodUpdate
  <2> QED
    BY <1>3, <1>5, <2>1, PutUpdate DEF Entered
<1>6. ASSUME EnterNot(u, p) \/ EnterNew(u, p) PROVE UpdateInv'
  <2> DEFINE x == [w EXCEPT !.success = @ \cup {p}]
  <2>1. x \in Update' /\ x.pc = "enter" /\ GoodUpdate(x)
    BY <1>1, <1>4 DEF Update, GoodUpdate
  <2> QED
    BY <1>1, <1>4, <1>5, <1>6, <2>1 DEF EnterNot, EnterNew
<1>7. ASSUME EnterBootloader(u, p) PROVE UpdateInv'
  <2>1. PICK b \in Block :
          /\ node'[p] = b
          /\ \/ Entered(u, p, [w EXCEPT !.fresh = Append(@, Entry(p, b))])
             \/ Entered(u, p, [w EXCEPT !.old = Append(@, Entry(p, b))])
    BY <1>7, Blocks DEF EnterBootloader, DeviceInv
  <2>2. Entry(p, b) \in GoodEntry'
    <3>1. 0 \in 0..MaxBlockRetries /\ 0 \in 0..MaxTotalRetries
      BY Blocks
    <3>2. Entry(p, b) \in Entries
      BY <2>1, <3>1 DEF Entry, Entries
    <3>3. Accounted(Entry(p, b))'
      BY <2>1, Blocks DEF Accounted, Entry, Old, Block
    <3> QED
      BY <3>2, <3>3 DEF GoodEntry, Entries
  <2>3. ASSUME NEW s \in Seq(GoodEntry')
        PROVE  Append(s, Entry(p, b)) \in Seq(GoodEntry')
    BY <2>2
  <2>4. /\ [w EXCEPT !.fresh = Append(@, Entry(p, b))] \in Update'
        /\ [w EXCEPT !.old = Append(@, Entry(p, b))] \in Update'
    BY <1>4, <2>3 DEF Update
  <2>5. ASSUME NEW x, x \in {[w EXCEPT !.fresh = Append(@, Entry(p, b))],
                             [w EXCEPT !.old = Append(@, Entry(p, b))]}
        PROVE  x.pc = "enter" /\ GoodUpdate(x)
    BY <1>1, <2>5 DEF Update, GoodUpdate
  <2> QED
    BY <1>5, <2>1, <2>4, <2>5
<1> QED
  BY <1>3, <1>6, <1>7 DEF FirmwareInv
(* A block is taken, missed, or sets the device back.                      *)
LEMMA SendStep ==
  ASSUME UpdateInv, DeviceInv, VersionIsTrue, NEW u \in {Updater, Worker},
         SendBlock(u)
  PROVE  FirmwareInv'
<1> DEFINE w == update[u]
           waiting == {p \in Receivers(w) : node[p] = w.block}
<1>1. w \in Update /\ w.pc = "send" /\ w.block \in Block
  BY DEF UpdateInv, GoodUpdate, SendBlock
<1>2. waiting \subseteq Updatable
  <2>1. \A i \in DOMAIN w.list : w.list[i].peer \in Updatable
    BY <1>1 DEF Update, GoodEntry, Entries
  <2>2. Len(w.list) = 1 => 1 \in DOMAIN w.list
    BY <1>1 DEF Update
  <2> QED
    BY <2>1, <2>2 DEF Receivers, ActiveIn
<1>3. PICK outcome \in [waiting -> After(w.block)] :
        /\ node' = [p \in Updatable |->
                     IF p \in waiting THEN outcome[p] ELSE node[p]]
        /\ left' = left \cup {p \in waiting : outcome[p] = Old}
  BY DEF SendBlock
<1>4. After(w.block) \subseteq Block \cup {Old, New}
  BY <1>1, Blocks DEF After
<1>5. \A p \in waiting : /\ node[p] = w.block /\ node[p] # New
                         /\ outcome[p] \in Block \cup {Old, New}
                         /\ outcome[p] = Old => p \in left'
  BY <1>1, <1>3, <1>4, Blocks
<1> HIDE DEF waiting
<1>6. Forward
  BY <1>3, <1>5 DEF Forward
<1>7. DeviceInv' /\ VersionIsTrue'
  BY <1>2, <1>3, <1>5 DEF SendBlock, DeviceInv, VersionIsTrue
<1>8. UpdateInv'
  <2> DEFINE new == [w EXCEPT !.pc = "ask", !.repeat = FALSE, !.next = 1]
  <2>1. w \in Update'
    BY <1>1, <1>6, ForwardUpdates
  <2>2. new \in Update'
    BY <2>1 DEF Update
  <2>3. GoodUpdate(new)
    BY <1>1 DEF Update, GoodUpdate
  <2> QED
    BY <1>6, <2>2, <2>3, PutUpdate DEF SendBlock
<1> QED
  BY <1>7, <1>8 DEF FirmwareInv

(* An answer: the entry follows the device.                                *)
LEMMA HeardEntry ==
  ASSUME DeviceInv, NEW x \in GoodEntry, Active(x), NEW sent \in Block
  PROVE  Heard(x, Answer(x.peer), sent) \in GoodEntry
<1> DEFINE new == Answer(x.peer)
<1>1. /\ x \in Entries /\ Accounted(x) /\ x.peer \in Updatable
      /\ node[x.peer] \in Block \cup {Old, New}
  BY DEF GoodEntry, Entries, DeviceInv
<1>2. /\ new \in Block \cup {0}
      /\ new = 0 => node[x.peer] \in {Old, New}
  BY <1>1 DEF Answer, Old
<1>3. /\ x.retries + 1 \in 0..MaxBlockRetries /\ 0 \in 0..MaxBlockRetries
      /\ x.total + 1 \in 0..MaxTotalRetries
  BY <1>1, Blocks DEF Active, Entries
<1> HIDE DEF new
<1>4. Heard(x, new, sent) \in Entries
  BY <1>1, <1>2, <1>3 DEF Heard, Entries
<1>5. /\ Heard(x, new, sent).peer = x.peer
      /\ Heard(x, new, sent).block \in {new, x.block}
      /\ x.block \in Block
  BY <1>1 DEF Heard, Entries, Active
<1>6. Accounted(Heard(x, new, sent))
  BY <1>1, <1>2, <1>5, Blocks DEF Accounted, Old
<1> QED
  BY <1>4, <1>6 DEF GoodEntry, new

LEMMA SeqReplace ==
  ASSUME NEW S, NEW s \in Seq(S), NEW i, NEW x \in S
  PROVE  [s EXCEPT ![i] = x] \in Seq(S)
<1>1. Len(s) \in Nat /\ s \in [1..Len(s) -> S]
  OBVIOUS
<1>2. PICK n \in Nat : s \in [1..n -> S]
  BY <1>1
<1>3. [s EXCEPT ![i] = x] \in [1..n -> S]
  BY <1>2
<1> QED
  BY <1>3, SeqDef

LEMMA AskStep ==
  ASSUME UpdateInv, DeviceInv, VersionIsTrue, NEW u \in {Updater, Worker},
         AskBlock(u)
  PROVE  FirmwareInv'
<1> DEFINE w == update[u]
           x == w.list[w.next]
           onward == [w EXCEPT !.next = @ + 1]
<1>1. /\ w \in Update /\ w.pc = "ask" /\ w.block \in Block
      /\ w.next \in Nat \ {0}
      /\ UNCHANGED <<node, version, left>>
  BY DEF UpdateInv, GoodUpdate, AskBlock, Update
<1>2. ASSUME NEW new \in Update, GoodUpdate(new), Put(u, new)
      PROVE  FirmwareInv'
  BY <1>1, <1>2, Standing
<1>3. CASE Put(u, [w EXCEPT !.pc = "choose"])
  <2>1. /\ [w EXCEPT !.pc = "choose"] \in Update
        /\ GoodUpdate([w EXCEPT !.pc = "choose"])
    BY <1>1 DEF Update, GoodUpdate
  <2> QED
    BY <1>2, <1>3, <2>1
<1>4. onward \in Update /\ GoodUpdate(onward)
  BY <1>1 DEF Update, GoodUpdate
<1>5. CASE Put(u, onward)
  BY <1>2, <1>4, <1>5
<1>6. ASSUME w.next <= Len(w.list) PROVE x \in GoodEntry
  BY <1>1, <1>6 DEF Update
<1>7. ASSUME NEW new \in GoodEntry
      PROVE  LET list == [w.list EXCEPT ![w.next] = new]
             IN [onward EXCEPT !.list = list] \in Update
  <2>1. w.list \in Seq(GoodEntry)
    BY <1>1 DEF Update
  <2>2. PICK list : list = [w.list EXCEPT ![w.next] = new]
    OBVIOUS
  <2>3. list \in Seq(GoodEntry)
    BY <1>7, <2>1, <2>2, SeqReplace
  <2>4. [onward EXCEPT !.list = list] \in Update
    BY <1>4, <2>3 DEF Update
  <2> QED
    BY <2>2, <2>4
<1>8. CASE /\ w.next <= Len(w.list)
           /\ Put(u, [onward EXCEPT !.list[w.next].abort = TRUE])
  <2>1. [x EXCEPT !.abort = TRUE] \in GoodEntry
    BY <1>6, <1>8 DEF GoodEntry, Entries, Accounted
  <2> DEFINE list == [w.list EXCEPT ![w.next] = [x EXCEPT !.abort = TRUE]]
             new == [onward EXCEPT !.list = list]
  <2>2. new \in Update
    BY <1>7, <2>1
  <2>3. new = [onward EXCEPT !.list[w.next].abort = TRUE]
    BY <1>4 DEF Update
  <2>4. GoodUpdate(new)
    BY <1>4 DEF Update, GoodUpdate
  <2> HIDE DEF new
  <2> QED
    BY <1>2, <1>8, <2>2, <2>3, <2>4
<1>9. CASE /\ w.next <= Len(w.list)
           /\ Active(x)
           /\ Put(u, [onward EXCEPT
                !.list[w.next] = Heard(x, Answer(x.peer), w.block),
                !.repeat = @ \/ Answer(x.peer) = w.block])
  <2> DEFINE heard == Heard(x, Answer(x.peer), w.block)
             repeat == w.repeat \/ Answer(x.peer) = w.block
             list == [w.list EXCEPT ![w.next] = heard]
             more == [onward EXCEPT !.list = list]
             new == [more EXCEPT !.repeat = repeat]
  <2>1. heard \in GoodEntry
    BY <1>1, <1>6, <1>9, HeardEntry
  <2>2. more \in Update
    BY <1>7, <2>1
  <2>3. new = [onward EXCEPT
                !.list[w.next] = heard,
                !.repeat = @ \/ Answer(x.peer) = w.block]
    BY <1>4 DEF Update
  <2>4. repeat \in BOOLEAN
    OBVIOUS
  <2>5. more.pc = w.pc /\ more.block = w.block /\ more.next = w.next + 1
    BY <1>1 DEF Update
  <2> HIDE DEF repeat, more
  <2>6. new \in Update
    BY <2>2, <2>4 DEF Update
  <2>7. new.pc = more.pc /\ new.block = more.block /\ new.next = more.next
    BY <2>2 DEF Update
  <2>8. new.block \in Block /\ new.next # 0
    BY <1>1, <2>5, <2>7
  <2> HIDE DEF new
  <2>9. GoodUpdate(new)
    BY <2>8 DEF GoodUpdate
  <2> QED
    BY <1>2, <1>9, <2>3, <2>6, <2>9 DEF heard
<1>10. w.next > Len(w.list) \/ w.next <= Len(w.list)
  BY <1>1 DEF Update
<1> QED
  BY <1>3, <1>5, <1>8, <1>9, <1>10 DEF AskBlock

(* Who is done has the new firmware, or fell back to the old one.          *)
LEMMA EndStep ==
  ASSUME UpdateInv, DeviceInv, VersionIsTrue, NEW u \in {Updater, Worker},
         EndUpdate(u)
  PROVE  FirmwareInv'
<1> DEFINE w == update[u]
<1>1. w \in Update /\ UNCHANGED <<node, left>>
  BY DEF UpdateInv, EndUpdate
<1>2. UpdateInv'
  <2>1. PICK new \in Update : GoodUpdate(new) /\ Put(u, new)
    BY FinishPut DEF EndUpdate
  <2> QED
    BY <1>1, <2>1, PutUpdate, ForwardUpdates DEF Forward
<1>3. \A p \in Done(w) : node[p] = New \/ p \in left
  BY <1>1 DEF Done, Update, GoodEntry, Accounted
<1>4. version' = [p \in Updatable |->
                   IF p \in Done(w) \cap present THEN "new" ELSE version[p]]
  BY DEF EndUpdate
<1>5. DeviceInv' /\ VersionIsTrue'
  BY <1>1, <1>3, <1>4 DEF DeviceInv, VersionIsTrue
<1> QED
  BY <1>2, <1>5 DEF FirmwareInv

LEMMA FirmwareStep ==
  ASSUME UpdateInv, DeviceInv, VersionIsTrue, [Next]_vars
  PROVE  FirmwareInv'
<1>1. ASSUME NEW u \in {Updater, Worker}, UpdateStep(u) PROVE FirmwareInv'
  BY <1>1, PreparationStep, FallbackStep, EnterStep, SendStep, AskStep, EndStep
     DEF UpdateStep
<1>2. ASSUME NEW u \in {Updater, Worker}, NEW ids \in SUBSET Updatable,
             Request(u, ids)
      PROVE  FirmwareInv'
  <2> DEFINE new == [NoUpdate EXCEPT !.pc = "test", !.ids = ids]
  <2>1. new \in Update /\ GoodUpdate(new)
    BY NoUpdateIsUpdate DEF Update, GoodUpdate
  <2> QED
    BY <1>2, <2>1, Standing DEF Request
<1>3. CASE UpdateFirmware \/ CheckForUpdates
  BY <1>2, <1>3 DEF UpdateFirmware, CheckForUpdates
<1>4. CASE Restart
  <2>1. UNCHANGED <<node, version, left>>
    BY <1>4 DEF Restart
  <2>2. UpdateInv'
    BY <1>4, <2>1, ForwardUpdates, NoUpdateIsUpdate
       DEF Restart, UpdateInv, Forward
  <2> QED
    BY <2>1, <2>2 DEF FirmwareInv, DeviceInv, VersionIsTrue
<1>5. CASE UNCHANGED firmwareVars
  BY <1>5 DEF firmwareVars, FirmwareInv, UpdateInv, Update, GoodEntry,
              Accounted, DeviceInv, VersionIsTrue
<1> QED
  BY <1>1, <1>3, <1>4, <1>5 DEF Next, vars
-----------------------------------------------------------------------------
(* The invariant.                                                          *)

LEMMA InitIInv ==
  ASSUME Init
  PROVE  IInv
<1>1. TablesOK /\ BudgetOK
  <2>1. Cardinality({}) <= Slots
    BY FS_EmptySet, MeshingAssumption
  <2> QED
    BY <2>1, MeshingAssumption DEF Init, MeshingInit, TablesOK, BudgetOK
<1>2. TaskInv /\ \A t \in Thread : task[t].pc = "idle"
  BY IdleIsTask DEF Init, MeshingInit, TaskInv, Idle
<1>3. LoneInv /\ TableAgrees
  BY <1>2 DEF Init, MeshingInit, LoneInv, TableAgrees, Transferring
<1>4. RelationInv
  <2>1. \A e : TasksOf(e) = {}
    BY <1>2 DEF TasksOf
  <2>2. \A e \in Peer : Agrees(e)
    BY NoPeerIsNone DEF Init, MeshingInit, Agrees
  <2> QED
    BY <2>1, <2>2 DEF Init, MeshingInit, RelationInv, Related
<1>5. UpdateInv
  BY NoUpdateIsUpdate DEF Init, UpdateInv
<1>6. DeviceInv /\ VersionIsTrue
  BY DEF Init, DeviceInv, VersionIsTrue
<1> QED
  BY <1>1, <1>2, <1>3, <1>4, <1>5, <1>6 DEF IInv, MeshingInv

LEMMA NextIInv ==
  ASSUME IInv, [Next]_vars
  PROVE  IInv'
<1>1. TablesOK' /\ BudgetOK' /\ TaskInv'
  BY TablesStep, BudgetStep, TaskStep DEF IInv, MeshingInv
<1>2. LoneInv' /\ TableAgrees'
  BY <1>1, LoneStep DEF IInv, MeshingInv
<1>3. RelationInv'
  BY RelationStep DEF IInv, MeshingInv
<1>4. FirmwareInv'
  BY FirmwareStep DEF IInv
<1> QED
  BY <1>1, <1>2, <1>3, <1>4 DEF IInv, MeshingInv, FirmwareInv

LEMMA Types ==
  ASSUME IInv
  PROVE  TypeOK
<1>1. ASSUME NEW t \in Thread
      PROVE  /\ task[t].pc \in Transferring
                          \cup {"idle", "decide", "found", "reset", "change"}
             /\ task[t].kind \in Kinds \cup {"none"}
             /\ {task[t].peer, task[t].target, task[t].best}
                  \subseteq Peer \cup {None}
             /\ task[t].tries \in 0..MaxTries
  BY <1>1 DEF IInv, MeshingInv, TaskInv, Task
<1>2. MeshingTypeOK
  BY <1>1 DEF IInv, MeshingInv, TablesOK, BudgetOK, MeshingTypeOK
<1>3. ASSUME NEW u \in {Updater, Worker}
      PROVE  /\ update[u].pc \in
                  {"idle", "test", "set", "group", "begin", "enter", "choose",
                   "send", "ask", "end", "fallback"}
             /\ update[u].block \in Block \cup {0}
             /\ update[u].list \in Seq(GoodEntry)
  BY <1>3 DEF IInv, UpdateInv, Update
<1>4. ASSUME NEW u \in {Updater, Worker}, NEW i \in DOMAIN update[u].list
      PROVE  /\ update[u].list[i].retries \in 0..MaxBlockRetries
             /\ update[u].list[i].total \in 0..MaxTotalRetries
  BY <1>3, <1>4 DEF GoodEntry, Entries
<1>5. FirmwareTypeOK
  BY <1>3, <1>4 DEF IInv, DeviceInv, FirmwareTypeOK
<1> QED
  BY <1>2, <1>5 DEF TypeOK

(* The invariant, for any number of peers and updates: a transfer that     *)
(* nobody joined carries the table as it is, one task at a time has half   *)
(* changed the relation of a peer (sendMeshingTable and its callers), and  *)
(* the list of updateFirmware follows the devices.                         *)
THEOREM Invariance == Spec => []IInv
<1>1. Init => IInv
  BY InitIInv
<1>2. IInv /\ [Next]_vars => IInv'
  BY NextIInv
<1> QED
  BY <1>1, <1>2, PTL DEF Spec

(* The variables of EnOceanCentral and its peers keep their types, and the *)
(* counters of updateFirmware their limits; no table exceeds its slots.    *)
THEOREM TypeInvariant == Spec => []TypeOK
<1>1. IInv => TypeOK
  BY Types
<1> QED
  BY <1>1, Invariance, PTL

(* Without a transfer (sendMeshingTable), or one that failed, the repeater *)
(* filters for the peers of its table in memory and in the database.       *)
THEOREM TablesAgree == Spec => []TableAgrees
<1>1. IInv => TableAgrees
  BY DEF IInv, MeshingInv
<1> QED
  BY <1>1, Invariance, PTL

(* A peer that no call and no check is busy with names the repeater whose  *)
(* table it is in (setRepeaterId, addRepeatedAddress), as long as only one *)
(* task at a time concerned it.                                            *)
THEOREM Halves == Spec => []HalvesAgree
<1>1. IInv => HalvesAgree
  BY DEF IInv, MeshingInv, RelationInv, Related, Agrees, HalvesAgree
<1> QED
  BY <1>1, Invariance, PTL

(* However updates overlap, are repeated or end with the process, the      *)
(* version that setFirmwareVersion stored is not newer than the device's.  *)
THEOREM TrueVersion == Spec => []VersionIsTrue
<1>1. IInv => VersionIsTrue
  BY DEF IInv
<1> QED
  BY <1>1, Invariance, PTL
=============================================================================
