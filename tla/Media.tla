------------------------------- MODULE Media -------------------------------
(* The private photo store of src/media.mjs: uploads that await the image    *)
(* library, reuse of a photo that was sent before, and the daily purge.      *)
EXTENDS Naturals, FiniteSets

CONSTANTS
  Uploads,       \* calls of store() under way at the same time
  Photos,        \* what is sent: byte for byte the same or not
  Promotions,    \* the campaigns photos are sent to
  Assets,        \* asset ids
  Retention,     \* retentionDays
  MaxDay         \* bound: days of one behaviour

ASSUME MediaAssumption == Retention \in Nat /\ MaxDay \in Nat

VARIABLES
  asset,    \* media_assets with their files: [status, photo, promotion, until, files]
  upload,   \* each call of store(): [at, photo, promotion]
  held,     \* receipts: [asset, photo, promotion, day]
  loose,    \* files that no row names
  day

mediaVars == <<asset, upload, held, loose, day>>

Both == {"original", "normalised"}
NoUpload == [at |-> "none", photo |-> CHOOSE p \in Photos : TRUE, promotion |-> CHOOSE c \in Promotions : TRUE]
NoAsset == [status |-> "none", photo |-> NoUpload.photo, promotion |-> NoUpload.promotion, until |-> 0, files |-> {}]

MediaInit ==
  /\ asset = [a \in Assets |-> NoAsset]
  /\ upload = [u \in Uploads |-> NoUpload]
  /\ held = {} /\ loose = 0 /\ day = 0

\* ---- store()
(* inspectImage() and imageHashes() are awaited.                             *)
Receives(u, p, c) ==
  /\ upload[u].at = "none"
  /\ upload' = [upload EXCEPT ![u] = [at |-> "hashing", photo |-> p, promotion |-> c]]
  /\ UNCHANGED <<asset, held, loose, day>>

(* bySha and onDisk: the same bytes, the same campaign, a row that says      *)
(* stored and files that are there.                                          *)
ReusableByRow(a, p, c) ==
  asset[a].status = "stored" /\ asset[a].photo = p /\ asset[a].promotion = c
Reusable(a, p, c) == ReusableByRow(a, p, c) /\ asset[a].files = Both

Expiry == day + Retention
KeepExpiry(until) == until
TouchExpiry(until) == IF until < Expiry THEN Expiry ELSE until

(* submit() writes the receipt in the same turn in which store() returns.    *)
Submits(u, a) ==
  /\ held' = held \cup {[asset |-> a, photo |-> upload[u].photo, promotion |-> upload[u].promotion, day |-> day]}
  /\ upload' = [upload EXCEPT ![u] = NoUpload]
  /\ UNCHANGED <<loose, day>>

Reuses(u, a) ==
  /\ upload[u].at = "hashing" /\ Reusable(a, upload[u].photo, upload[u].promotion)
  /\ asset' = [asset EXCEPT ![a].until = TouchExpiry(@)]
  /\ Submits(u, a)

(* Nothing to reuse: the quality and the working image are awaited.          *)
FindsNone(u) ==
  /\ upload[u].at = "hashing"
  /\ \A a \in Assets : ~Reusable(a, upload[u].photo, upload[u].promotion)
  /\ upload' = [upload EXCEPT ![u].at = "normalising"]
  /\ UNCHANGED <<asset, held, loose, day>>

(* Both files and then the row, under an id of its own.                      *)
Stores(u, a) ==
  /\ upload[u].at = "normalising" /\ asset[a].status = "none"
  /\ asset' = [asset EXCEPT ![a] = [status |-> "stored", photo |-> upload[u].photo,
                                    promotion |-> upload[u].promotion, until |-> Expiry, files |-> Both]]
  /\ Submits(u, a)

(* A photo that cannot be read, or a process that dies: uploads are in       *)
(* memory, and files written before the row belong to no row.                *)
Drops(u) ==
  /\ upload[u].at # "none"
  /\ upload' = [upload EXCEPT ![u] = NoUpload]
  /\ UNCHANGED <<asset, held, loose, day>>
DiesWriting(u) ==
  /\ upload[u].at = "normalising" /\ loose = 0
  /\ loose' = 1
  /\ upload' = [v \in Uploads |-> NoUpload]
  /\ UNCHANGED <<asset, held, day>>

\* ---- purgeExpired()
Expired(a) == asset[a].status = "stored" /\ asset[a].until < day

(* The files and then the row, one asset after the other without a break.    *)
Purges(a) ==
  /\ Expired(a)
  /\ asset' = [asset EXCEPT ![a].status = "purged", ![a].files = {}]
  /\ UNCHANGED <<upload, held, loose, day>>
(* The process dies after the first or the second file; the row still says   *)
(* stored and a later pass takes it up again.                                *)
DiesPurging(a, left) ==
  /\ Expired(a) /\ left \in {{}, {"normalised"}} /\ left \subseteq asset[a].files
  /\ asset' = [asset EXCEPT ![a].files = left]
  /\ upload' = [v \in Uploads |-> NoUpload]
  /\ UNCHANGED <<held, loose, day>>

NextDay ==
  /\ day < MaxDay /\ day' = day + 1
  /\ UNCHANGED <<asset, upload, held, loose>>

MediaNext ==
  \/ NextDay
  \/ \E u \in Uploads :
       \/ Drops(u) \/ FindsNone(u) \/ DiesWriting(u)
       \/ \E p \in Photos, c \in Promotions : Receives(u, p, c)
       \/ \E a \in Assets : Reuses(u, a) \/ Stores(u, a)
  \/ \E a \in Assets : Purges(a) \/ \E left \in SUBSET Both : DiesPurging(a, left)

\* ---- properties
(* As long as a receipt is within retention its photo can be read, whoever   *)
(* sent the same photo before and whatever the purge did meanwhile; and what *)
(* is purged has left the disk (the comments at media.mjs:181-187, 199-203). *)
PhotosOutlastRetention ==
  /\ \A r \in held : day <= r.day + Retention =>
       /\ asset[r.asset].status = "stored" /\ asset[r.asset].files = Both
       /\ asset[r.asset].photo = r.photo /\ asset[r.asset].promotion = r.promotion
  /\ \A a \in Assets : asset[a].status = "purged" => asset[a].files = {}
============================================================================
