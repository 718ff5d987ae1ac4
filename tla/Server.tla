------------------------------- MODULE Server ------------------------------
(* The process of src/server.mjs around its requests: the database it opens, *)
(* the deployment it comes up in, the photos it keeps, the participants it   *)
(* registers, the phone it is linked to and the loop that drives its queues. *)
EXTENDS Console, Store, Deploy, Media, People, Link, Worker

serverVars == <<vars, storeVars, deployVars, mediaVars, peopleVars, linkVars, loopVars>>

ServerInit ==
  /\ Init
  /\ StoreInit /\ DeployInit /\ MediaInit /\ PeopleInit /\ LinkInit /\ WorkerInit

(* The parts touch no row and no variable of each other but through the      *)
(* operations of other modules: a behaviour uses one of them, the family of  *)
(* its initial state (bound Families), and the rest stands still.            *)
Parts == {"schema", "tx", "deploy", "media", "people", "link", "worker"}

Requests ==
  /\ offers.routes \cap Parts = {} /\ Next
  /\ UNCHANGED <<storeVars, deployVars, mediaVars, peopleVars, linkVars, loopVars>>
KeepsRows ==
  /\ \/ In("schema") /\ SchemaNext
     \/ In("tx") /\ TxNext
  /\ UNCHANGED <<vars, deployVars, mediaVars, peopleVars, linkVars, loopVars>>
Deploys ==
  /\ In("deploy") /\ DeployNext
  /\ UNCHANGED <<vars, storeVars, mediaVars, peopleVars, linkVars, loopVars>>
KeepsPhotos ==
  /\ In("media") /\ MediaNext
  /\ UNCHANGED <<vars, storeVars, deployVars, peopleVars, linkVars, loopVars>>
KeepsPeople ==
  /\ In("people") /\ PeopleNext
  /\ UNCHANGED <<vars, storeVars, deployVars, mediaVars, linkVars, loopVars>>
KeepsLink ==
  /\ In("link") /\ LinkNext
  /\ UNCHANGED <<vars, storeVars, deployVars, mediaVars, peopleVars, loopVars>>
Works ==
  /\ In("worker") /\ WorkerNext
  /\ UNCHANGED <<vars, storeVars, deployVars, mediaVars, peopleVars, linkVars>>

ServerNext ==
  Requests \/ KeepsRows \/ Deploys \/ KeepsPhotos \/ KeepsPeople \/ KeepsLink \/ Works

ServerSpec == ServerInit /\ [][ServerNext]_serverVars
=============================================================================
