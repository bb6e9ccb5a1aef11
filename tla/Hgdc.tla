---------------------------------- MODULE Hgdc ---------------------------------
(***************************************************************************)
(* The interface to a module of an HGDC.  The HGDC reports modules that    *)
(* are added, removed or restarted, and that it is connected again; the    *)
(* thread of Interfaces takes the last report, handles it, and resets it:  *)
(* what is reported meanwhile is lost.  Handling it may mean to initialise *)
(* the module, which takes a while.  One module is followed.               *)
(*                                                                         *)
(* A failed exchange stops the interface, and what is stopped asks nothing *)
(* any more: only startListening, for a module that is added, ends that.   *)
(***************************************************************************)
VARIABLES
  module,     \* "absent", or whether it "answers" or is "dumb"
  lasting,    \* it answers from now on
  report,     \* _updatedHgdcModules: what it says of the module, or "none"
  again,      \* _hgdcReconnected
  updater,    \* what the thread is doing
  hg,         \* the interface: exists, _stopped, _initComplete, and whether
              \* _baseAddress is what the module has
  master,     \* isMaster
  forceBase,  \* the setting "forcebaseid"
  lost,       \* history: a report was replaced or reset before it was handled
  failed      \* history: since it listens or was initialised, a command or an
              \* initialisation of the interface failed

hgdcVars == <<module, lasting, report, again, updater, hg, master, forceBase, lost,
              failed>>

Hgdcs == [exists : BOOLEAN, stopped : BOOLEAN, complete : BOOLEAN, address : BOOLEAN]

HgdcTypeOK ==
  /\ module \in {"absent", "answers", "dumb"}
  /\ {lasting, again, master, forceBase, lost, failed} \subseteq BOOLEAN
  /\ report \in {"none", "added", "removed", "restarted"}
  /\ updater \in {"idle", "init", "reset", "again", "initAgain"}
  /\ hg \in Hgdcs
  /\ ~hg.exists => hg.stopped /\ ~hg.complete

HgdcInit ==
  /\ module = "absent"
  /\ lasting = FALSE
  /\ report = "none"
  /\ again = FALSE
  /\ updater = "idle"
  /\ hg = [exists |-> FALSE, stopped |-> TRUE, complete |-> FALSE, address |-> FALSE]
  /\ master \in BOOLEAN
  /\ forceBase \in BOOLEAN
  /\ lost = FALSE
  /\ failed = FALSE
-----------------------------------------------------------------------------
(* hgdcModuleUpdate: the report replaces the one before.                   *)
Report(what) ==
  /\ report' = what
  /\ lost' = (lost \/ report # "none")

Added ==
  /\ module = "absent"
  /\ module' \in {"answers", "dumb"}
  /\ Report("added")
  /\ UNCHANGED <<lasting, again, updater, hg, master, forceBase, failed>>

Removed ==
  /\ module # "absent"
  /\ ~lasting
  /\ module' = "absent"
  /\ Report("removed")
  /\ UNCHANGED <<lasting, again, updater, hg, master, forceBase, failed>>

Restarted ==
  /\ module # "absent"
  /\ ~lasting
  /\ module' \in {"answers", "dumb"}
  /\ Report("restarted")
  /\ UNCHANGED <<lasting, again, updater, hg, master, forceBase, failed>>

(* From now on.                                                            *)
Lasts ==
  /\ module = "answers"
  /\ ~lasting
  /\ lasting' = TRUE
  /\ UNCHANGED <<module, report, again, updater, hg, master, forceBase, lost, failed>>

(* hgdcReconnected, after some seconds.                                    *)
Reconnected ==
  /\ ~lasting
  /\ again' = TRUE
  /\ UNCHANGED <<module, lasting, report, updater, hg, master, forceBase, lost, failed>>
-----------------------------------------------------------------------------
(* hgdcModuleUpdateThread.                                                 *)

(* startListening, of a new interface as well.                             *)
Listen ==
  /\ hg' = [hg EXCEPT !.exists = TRUE, !.stopped = FALSE, !.complete = FALSE]
  /\ failed' = FALSE

(* The interface that is known stops, or is initialised.                   *)
Removal ==
  /\ report = "removed"
  /\ hg.exists
  /\ hg' = [hg EXCEPT !.stopped = TRUE]
  /\ updater' = "reset"
  /\ UNCHANGED failed

Restart ==
  /\ report = "restarted"
  /\ hg.exists
  /\ hg' = [hg EXCEPT !.complete = FALSE]
  /\ updater' = "init"
  /\ UNCHANGED failed

Handled ==
  /\ updater = "idle"
  /\ report # "none"
  /\ UNCHANGED <<module, lasting, report, again, master, forceBase, lost>>

(* Faulty variant: the interface that is known already is left as it is.   *)
TakeReportOnce ==
  /\ Handled
  /\ \/ Removal
     \/ Restart
     \/ /\ report = "added" /\ ~hg.exists
        /\ Listen
        /\ updater' = "init"
     \/ /\ (report = "added") = hg.exists
        /\ updater' = "reset"
        /\ UNCHANGED <<hg, failed>>

TakeReport ==
  /\ Handled
  /\ \/ Removal
     \/ Restart
     \/ /\ report = "added"
        /\ hg.stopped \/ ~hg.complete
        /\ Listen
        /\ updater' = "init"
     \/ /\ IF report = "added" THEN ~hg.stopped /\ hg.complete ELSE ~hg.exists
        /\ updater' = "reset"
        /\ UNCHANGED <<hg, failed>>

(* setBaseAddress fails: it is not acknowledged, with the address set or   *)
(* not, or refused, as a module answers that has no changes left; or the   *)
(* new address cannot be read, which nobody notices.                       *)
AddressNotSet(h) ==
  {[h EXCEPT !.stopped = TRUE, !.address = a] : a \in {h.address, FALSE}}
    \cup (IF lasting THEN {} ELSE {[h EXCEPT !.address = FALSE]})

(* init: nothing is asked of a module if another is master, and a stopped  *)
(* interface gets no answer.  When the base address cannot be set, it is   *)
(* initialised all the same.                                               *)
Initialised ==
  \/ /\ ~master
     /\ hg' = [hg EXCEPT !.complete = TRUE]
     /\ failed' = (failed /\ hg.stopped)
  \/ /\ master
     /\ ~hg.stopped
     /\ module = "answers"
     /\ hg' = [hg EXCEPT !.complete = TRUE, !.address = TRUE]
     /\ failed' = FALSE
  \/ /\ master
     /\ hg.stopped \/ ~lasting
     /\ hg' = [hg EXCEPT !.stopped = TRUE]
     /\ failed' = TRUE
  \/ /\ master
     /\ ~hg.stopped
     /\ forceBase
     /\ hg' \in AddressNotSet([hg EXCEPT !.complete = TRUE])
     /\ failed' = TRUE

Initialise ==
  /\ updater \in {"init", "initAgain"}
  /\ Initialised
  /\ updater' = IF updater = "init" THEN "reset" ELSE "idle"
  /\ UNCHANGED <<module, lasting, report, again, master, forceBase, lost>>

(* A command line sets the base address, or a firmware update asks for the *)
(* duty cycle, which stops the interface when it is not answered.          *)
HgdcCommand ==
  /\ hg.exists
  /\ ~hg.stopped
  /\ \/ /\ module = "answers"
        /\ hg' = [hg EXCEPT !.address = TRUE]
        /\ UNCHANGED failed
     \/ /\ hg' \in AddressNotSet(hg)
        /\ failed' = TRUE
  /\ UNCHANGED <<module, lasting, report, again, updater, master, forceBase, lost>>

(* The report is reset, perhaps one that came after the handled one: then  *)
(* the handled one has been replaced.                                      *)
Reset ==
  /\ updater = "reset"
  /\ report' = "none"
  /\ updater' = "again"
  /\ UNCHANGED <<module, lasting, again, hg, master, forceBase, lost, failed>>

(* Faulty variant: a module that is not known yet is initialised at once.  *)
LookAgainAtKnown ==
  /\ updater = "again" \/ (updater = "idle" /\ report = "none" /\ again)
  /\ again' = FALSE
  /\ hg' = [hg EXCEPT !.complete = FALSE]
  /\ updater' = IF again THEN "initAgain" ELSE "idle"
  /\ UNCHANGED <<module, lasting, report, master, forceBase, lost, failed>>

(* hgdcReconnectedThread.                                                  *)
LookAgain ==
  /\ updater = "again" \/ (updater = "idle" /\ report = "none" /\ again)
  /\ again' = FALSE
  /\ \/ /\ again /\ module # "absent"
        /\ IF hg.exists THEN hg' = [hg EXCEPT !.complete = FALSE] /\ UNCHANGED failed
                        ELSE Listen
        /\ updater' = "initAgain"
     \/ /\ ~again \/ module = "absent"
        /\ updater' = "idle"
        /\ UNCHANGED <<hg, failed>>
  /\ UNCHANGED <<module, lasting, report, master, forceBase, lost>>
-----------------------------------------------------------------------------
Updates == TakeReport \/ Initialise \/ Reset \/ LookAgain

HgdcNext ==
  \/ Added \/ Removed \/ Restarted \/ Reconnected \/ Lasts
  \/ HgdcCommand
  \/ Updates

(* The module is open and initialised, and, if it is this program that     *)
(* initialises it, its own telegrams are told from others by its address.  *)
HgdcUp == hg.exists /\ ~hg.stopped /\ hg.complete /\ (master => hg.address)
=============================================================================
