------------------------------- MODULE Deploy ------------------------------
(* How a deployment comes up (src/bootstrap.mjs, src/config.mjs, the start   *)
(* of createServer): a container whose own layer is thrown away at the next  *)
(* deployment must find the persistent volume before it opens a database.    *)
EXTENDS Naturals

VARIABLES
  dir,      \* the two places VOLUME_PATH can lead to: [marker, db, env, sample]
  host,     \* the deployment: [mounted, env, init], its mount and its variables
  service   \* how far the process came: "down", "proved", "seeded", "up"

deployVars == <<dir, host, service>>

(* marker: who wrote .volume-id; db: whether there is a database file; env:  *)
(* the environment it recorded; sample: it holds the sample promotion.       *)
Bare == [marker |-> "none", db |-> FALSE, env |-> "none", sample |-> FALSE]

Here == IF host.mounted THEN "volume" ELSE "layer"
Data == dir[Here]
Marked == Data.marker # "none"
Leaves(data) == dir' = [dir EXCEPT ![Here] = data]

DeployInit ==
  /\ dir = [d \in {"volume", "layer"} |-> Bare]
  /\ host = [mounted |-> TRUE, env |-> "production", init |-> FALSE]
  /\ service = "down"

\* ---- the host
(* A deployment replaces the container; ENVIRONMENT can be mistyped, and the *)
(* volume can be missing or VOLUME_INIT left set.                            *)
Redeploys(mounted, env, init) ==
  /\ dir' = [dir EXCEPT !["layer"] = Bare]
  /\ host' = [mounted |-> mounted, env |-> env, init |-> init]
  /\ service' = "down"

Stops ==
  /\ service # "down" /\ service' = "down"
  /\ UNCHANGED <<dir, host>>

\* ---- what an operator runs by hand
(* `migrate` opens the database, and so makes it; `preflight` does too, but  *)
(* only where there is a marker.                                             *)
MigratesByHand ==
  /\ Leaves([Data EXCEPT !.db = TRUE])
  /\ UNCHANGED <<host, service>>

MaySeed == Data.env # "production"

(* `db.js seed` asks the database alone.  `npm run seed` asks ENVIRONMENT as *)
(* well, and after the sample is in it builds a server, which records the    *)
(* environment where the volume is marked and fails where it is not.         *)
SeedsByHand(whole) ==
  /\ MaySeed /\ (whole => host.env # "production")
  /\ LET seeded == [Data EXCEPT !.db = TRUE, !.sample = TRUE]
     IN Leaves(IF whole /\ Marked /\ seeded.env = "none" THEN [seeded EXCEPT !.env = host.env] ELSE seeded)
  /\ UNCHANGED <<host, service>>

\* ---- bootstrap
(* Only a server that ran records its environment.  A database that cannot   *)
(* be read is taken for a live one.                                          *)
ExistingDatabase(blind) == Data.db
LiveDatabase(blind) == Data.db /\ (blind \/ Data.env # "none")

(* ensureDataVolume(): a marker, a database a service ran against, or the    *)
(* operator's word; otherwise the process exits.                             *)
ProvesVolume(blind) ==
  /\ service = "down"
  /\ Marked \/ LiveDatabase(blind) \/ host.init
  /\ Leaves(IF Marked THEN Data
            ELSE [Data EXCEPT !.marker = IF ~LiveDatabase(blind) THEN "VOLUME_INIT"
                                         ELSE IF blind THEN "unread" ELSE "adopted"])
  /\ service' = "proved" /\ host' = host

(* The database decides on sample data before the variable does.             *)
SeedsSample ==
  /\ service = "proved"
  /\ Leaves([Data EXCEPT !.db = TRUE, !.sample = @ \/ ("production" \notin {Data.env, host.env})])
  /\ service' = "seeded" /\ host' = host

(* createServer(): validateConfig() asks for the marker again, and for `npm  *)
(* start` that is the only time; the first environment a database records    *)
(* stays, and a production database is not opened as anything else.          *)
StartsServer ==
  /\ service \in {"down", "seeded"}
  /\ Marked
  /\ Data.env = "production" => host.env = "production"
  /\ Leaves([Data EXCEPT !.db = TRUE, !.env = IF @ = "none" THEN host.env ELSE @])
  /\ service' = "up" /\ host' = host

DeployNext ==
  \/ Stops \/ MigratesByHand \/ SeedsSample \/ StartsServer
  \/ \E flag \in BOOLEAN : SeedsByHand(flag) \/ ProvesVolume(flag)
  \/ \E mounted, init \in BOOLEAN, env \in {"staging", "production"} : Redeploys(mounted, env, init)

\* ---- properties
(* A service takes data in the container's own layer only after VOLUME_INIT  *)
(* was set for it, or after a database there could not be read; whatever     *)
(* tools ran before it and whatever deployments came and went (the comment   *)
(* at bootstrap.mjs:9-18 and that of looksLikeLiveDatabase).                 *)
DataStaysOffTheLayer ==
  service # "down" /\ ~host.mounted => Data.marker \in {"VOLUME_INIT", "unread"}
============================================================================
