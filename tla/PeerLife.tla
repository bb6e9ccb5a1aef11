-------------------------------- MODULE PeerLife -------------------------------
(***************************************************************************)
(* What EnOceanCentral promises of the peers of a device to those who use  *)
(* them: a peer goes through one life, from which nothing brings it back.  *)
(* It is written to the database before it can be found, and can no longer *)
(* be found when it leaves the database: the process may end at any time,  *)
(* and what can be found then can be found again.                          *)
(*                                                                         *)
(* Registry implements this specification.                                 *)
(***************************************************************************)
CONSTANT Peer

VARIABLE life  \* [peer -> how far it is]

(* A "draft" is being built, a "saved" one is in the database, a "known"   *)
(* one can be found, by its id or address, and a "leaving" one no longer.  *)
LifeInit == life = [p \in Peer |-> "new"]

InDatabase == {"saved", "known", "leaving"}
-----------------------------------------------------------------------------
Become(p, from, to) ==
  /\ life[p] = from
  /\ life' = [life EXCEPT ![p] = to]

Build(p) == Become(p, "new", "draft")
Save(p) == Become(p, "draft", "saved")
Insert(p) == Become(p, "saved", "known")
Remove(p) == Become(p, "known", "leaving")
Delete(p) == Become(p, "leaving", "gone")

(* The process ends and starts again: what is in the database is found,    *)
(* also what was about to leave it, and a draft is lost.                   *)
LoadPeers ==
  life' = [p \in Peer |-> IF life[p] \in InDatabase THEN "known"
                          ELSE IF life[p] = "draft" THEN "gone"
                          ELSE life[p]]

LifeNext ==
  \/ \E p \in Peer : Build(p) \/ Save(p) \/ Insert(p) \/ Remove(p) \/ Delete(p)
  \/ LoadPeers

LifeSpec == LifeInit /\ [][LifeNext]_life
=============================================================================
