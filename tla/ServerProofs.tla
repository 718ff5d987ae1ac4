---------------------------- MODULE ServerProofs ---------------------------
(* Proofs about the parts of Server for every value of their constants.      *)
EXTENDS Server, SequenceTheorems, TLAPS

\* ---- photos
AssetRow ==
  [status : {"none", "stored", "purged"}, photo : Photos \cup {NoUpload.photo},
   promotion : Promotions \cup {NoUpload.promotion}, until : Nat, files : SUBSET Both]
UploadRow ==
  [at : {"none", "hashing", "normalising"}, photo : Photos \cup {NoUpload.photo},
   promotion : Promotions \cup {NoUpload.promotion}]

(* What keeps a photo readable: the asset of a receipt is the photo that was *)
(* sent, is kept until the receipt's retention ends, and loses no file before.*)
PhotosInv ==
  /\ day \in Nat
  /\ asset \in [Assets -> AssetRow]
  /\ upload \in [Uploads -> UploadRow]
  /\ \A r \in held :
       /\ r.asset \in Assets /\ r.day \in Nat /\ asset[r.asset].status # "none"
       /\ asset[r.asset].photo = r.photo /\ asset[r.asset].promotion = r.promotion
       /\ asset[r.asset].until >= r.day + Retention
  /\ \A a \in Assets :
       /\ asset[a].status = "stored" => asset[a].files = Both \/ asset[a].until < day
       /\ asset[a].status = "purged" => asset[a].files = {} /\ asset[a].until < day

\* Purging a row touches its status and its files.
LEMMA PurgedRow ==
  ASSUME NEW r \in AssetRow
  PROVE  LET row == [r EXCEPT !.status = "purged", !.files = {}]
         IN  /\ row \in AssetRow /\ row.status = "purged" /\ row.files = {}
             /\ row.until = r.until /\ row.photo = r.photo /\ row.promotion = r.promotion
BY DEF AssetRow

LEMMA PhotosStart == MediaInit => PhotosInv
BY DEF MediaInit, PhotosInv, AssetRow, UploadRow, NoAsset, NoUpload, Both

LEMMA PhotosImply == PhotosInv => PhotosOutlastRetention
<1> SUFFICES ASSUME PhotosInv PROVE PhotosOutlastRetention  OBVIOUS
<1>1. ASSUME NEW r \in held, day <= r.day + Retention
      PROVE  /\ asset[r.asset].status = "stored" /\ asset[r.asset].files = Both
             /\ asset[r.asset].photo = r.photo /\ asset[r.asset].promotion = r.promotion
  <2>1. r.asset \in Assets /\ r.day \in Nat /\ asset[r.asset].until \in Nat
    BY DEF PhotosInv, AssetRow
  <2>2. ~(asset[r.asset].until < day)
    BY <1>1, <2>1, MediaAssumption DEF PhotosInv, AssetRow
  <2>3. QED BY <2>1, <2>2 DEF PhotosInv, AssetRow
<1>2. QED BY <1>1 DEF PhotosOutlastRetention, PhotosInv

\* What a receipt's asset keeps when its row changes the way it may.
LEMMA PhotosStep == PhotosInv /\ MediaNext => PhotosInv'
<1> SUFFICES ASSUME PhotosInv, MediaNext PROVE PhotosInv'  OBVIOUS
<1> USE MediaAssumption
<1>1. CASE NextDay
  BY <1>1 DEF NextDay, PhotosInv, AssetRow, UploadRow
<1>2. ASSUME NEW u \in Uploads, Drops(u) PROVE PhotosInv'
  BY <1>2 DEF Drops, PhotosInv, AssetRow, UploadRow, NoUpload
<1>3. ASSUME NEW u \in Uploads, FindsNone(u) PROVE PhotosInv'
  BY <1>3 DEF FindsNone, PhotosInv, AssetRow, UploadRow
<1>4. ASSUME NEW u \in Uploads, DiesWriting(u) PROVE PhotosInv'
  BY <1>4 DEF DiesWriting, PhotosInv, AssetRow, UploadRow, NoUpload
<1>5. ASSUME NEW u \in Uploads, NEW p \in Photos, NEW c \in Promotions, Receives(u, p, c)
      PROVE  PhotosInv'
  BY <1>5 DEF Receives, PhotosInv, AssetRow, UploadRow
<1>6. ASSUME NEW u \in Uploads, NEW a \in Assets, Reuses(u, a) PROVE PhotosInv'
  <2>1. upload' \in [Uploads -> UploadRow]
    BY <1>6 DEF Reuses, Submits, PhotosInv, AssetRow, UploadRow, NoUpload
  <2>2. asset' = [asset EXCEPT ![a].until = TouchExpiry(asset[a].until)] /\ day' = day
    BY <1>6 DEF Reuses, Submits, PhotosInv, AssetRow, UploadRow
  <2>3. TouchExpiry(asset[a].until) \in Nat /\ TouchExpiry(asset[a].until) >= asset[a].until
        /\ TouchExpiry(asset[a].until) >= day + Retention
    BY DEF TouchExpiry, Expiry, PhotosInv, AssetRow, UploadRow
  <2>4. asset[a].status = "stored" /\ asset[a].files = Both
        /\ asset[a].photo = upload[u].photo /\ asset[a].promotion = upload[u].promotion
    BY <1>6 DEF Reuses, Reusable, ReusableByRow
  <2>5. held' = held \cup {[asset |-> a, photo |-> upload[u].photo,
                            promotion |-> upload[u].promotion, day |-> day]}
    BY <1>6 DEF Reuses, Submits
  <2>6. QED BY <2>1, <2>2, <2>3, <2>4, <2>5 DEF PhotosInv, AssetRow, UploadRow
<1>7. ASSUME NEW u \in Uploads, NEW a \in Assets, Stores(u, a) PROVE PhotosInv'
  <2> DEFINE row == [status |-> "stored", photo |-> upload[u].photo,
                     promotion |-> upload[u].promotion, until |-> Expiry, files |-> Both]
  <2>1. upload' \in [Uploads -> UploadRow]
    BY <1>7 DEF Stores, Submits, PhotosInv, AssetRow, UploadRow, NoUpload
  <2>2. asset' = [asset EXCEPT ![a] = row] /\ day' = day
    BY <1>7 DEF Stores, Submits
  <2>3. Expiry \in Nat /\ Expiry >= day + Retention  BY DEF Expiry, PhotosInv, AssetRow, UploadRow
  <2>4. asset[a].status = "none"  BY <1>7 DEF Stores
  <2>5. held' = held \cup {[asset |-> a, photo |-> upload[u].photo,
                            promotion |-> upload[u].promotion, day |-> day]}
    BY <1>7 DEF Stores, Submits
  <2>6. QED BY <2>1, <2>2, <2>3, <2>4, <2>5 DEF PhotosInv, AssetRow, UploadRow
<1>8. ASSUME NEW a \in Assets, Purges(a) PROVE PhotosInv'
  <2> DEFINE row == [asset[a] EXCEPT !.status = "purged", !.files = {}]
  <2>1. asset[a].status = "stored" /\ asset[a].until < day
    BY <1>8 DEF Purges, Expired
  <2>2. asset' = [asset EXCEPT ![a] = row] /\ UNCHANGED <<upload, held, day>>
    BY <1>8 DEF Purges
  <2>3. /\ row \in AssetRow
        /\ row.status = "purged" /\ row.files = {} /\ row.until = asset[a].until
        /\ row.photo = asset[a].photo /\ row.promotion = asset[a].promotion
    <3>1. asset[a] \in AssetRow  BY DEF PhotosInv, AssetRow, UploadRow
    <3>2. QED BY <3>1, PurgedRow
  <2> HIDE DEF row
  <2>4. QED BY <2>1, <2>2, <2>3 DEF PhotosInv, AssetRow, UploadRow
<1>9. ASSUME NEW a \in Assets, NEW left \in SUBSET Both, DiesPurging(a, left) PROVE PhotosInv'
  BY <1>9 DEF DiesPurging, Expired, PhotosInv, AssetRow, UploadRow, NoUpload
<1>10. QED
  BY <1>1, <1>2, <1>3, <1>4, <1>5, <1>6, <1>7, <1>8, <1>9 DEF MediaNext

(* As long as a receipt is within retention its photo can be read, for any    *)
(* number of uploads, photos, campaigns and days (media.mjs:194-239).         *)
THEOREM PhotosOutlast == ServerSpec => []PhotosOutlastRetention
<1>1. ServerInit => PhotosInv  BY PhotosStart DEF ServerInit
<1>2. PhotosInv /\ [ServerNext]_serverVars => PhotosInv'
  <2> SUFFICES ASSUME PhotosInv, [ServerNext]_serverVars PROVE PhotosInv'  OBVIOUS
  <2>1. CASE UNCHANGED mediaVars
    BY <2>1 DEF mediaVars, PhotosInv
  <2>2. CASE MediaNext  BY <2>2, PhotosStep
  <2>3. QED
    BY <2>1, <2>2 DEF ServerNext, serverVars, Requests, KeepsRows, Deploys, KeepsPhotos,
       KeepsPeople, KeepsLink, Works
<1>3. QED BY <1>1, <1>2, PhotosImply, PTL DEF ServerSpec

\* ---- the linked phone
\* The types LinkKeepsTrying needs, and itself.
LinkInv ==
  /\ socket \in [Sockets -> {"none", "pairing", "open", "closed"}]
  /\ link \in [ready : BOOLEAN, stopping : BOOLEAN, sock : Sockets \cup {NoSocket}, session : BOOLEAN]
  /\ dialing \in Nat /\ timers \in Nat /\ lost \in BOOLEAN
  /\ LinkKeepsTrying

LEMMA LinkStart == LinkInit => LinkInv
<1> SUFFICES ASSUME LinkInit PROVE LinkInv  OBVIOUS
<1>1. LinkKeepsTrying  BY DEF LinkInit, LinkKeepsTrying
<1>2. QED BY <1>1 DEF LinkInit, LinkInv, NoSocket

LEMMA LinkStep == LinkInv /\ LinkNext => LinkInv'
<1> SUFFICES ASSUME LinkInv, LinkNext PROVE LinkInv'  OBVIOUS
<1> USE LinkAssumption DEF LinkInv, LinkKeepsTrying, Live
<1>1. CASE PostLink  BY <1>1 DEF PostLink, Dials
<1>2. CASE TimerFires  BY <1>2 DEF TimerFires, Dials
<1>3. CASE ConnectThrows  BY <1>3 DEF ConnectThrows
<1>4. CASE StopsLink  BY <1>4 DEF StopsLink, Hung
<1>5. CASE PostUnlink  BY <1>5 DEF PostUnlink
<1>6. CASE UnlinkAtOnce \/ UnlinkEnds
  <2>1. Unlinked  BY <1>6 DEF UnlinkAtOnce, UnlinkEnds
  <2>2. dialing' \in Nat /\ dialing' > 0 /\ timers' = timers /\ lost' = lost
    BY <2>1 DEF Unlinked
  <2>3. socket' \in [Sockets -> {"none", "pairing", "open", "closed"}]
    BY <2>1 DEF Unlinked, Hung
  <2>4. link' \in [ready : BOOLEAN, stopping : BOOLEAN, sock : Sockets \cup {NoSocket}, session : BOOLEAN]
    BY <2>1 DEF Unlinked
  <2>5. LinkKeepsTrying'  BY <2>2
  <2>6. QED BY <2>2, <2>3, <2>4, <2>5
<1>7. ASSUME NEW s \in Sockets, Connects(s) PROVE LinkInv'
  BY <1>7 DEF Connects
<1>8. ASSUME NEW s \in Sockets, ShowsQr(s) \/ Opens(s) PROVE LinkInv'
  BY <1>8 DEF ShowsQr, Opens
<1>9. ASSUME NEW s \in Sockets, Closes(s) PROVE LinkInv'
  <2>1. socket' = [socket EXCEPT ![s] = "closed"] /\ link' = [link EXCEPT !.ready = FALSE]
        /\ dialing' = dialing /\ lost' = lost
    BY <1>9 DEF Closes
  <2>2. timers' \in Nat /\ (link.stopping \/ timers' > 0)
    BY <1>9 DEF Closes, Reconnects, SetsTimer
  <2>3. link'.stopping = link.stopping  BY <2>1
  <2>4. LinkKeepsTrying'  BY <2>2, <2>3
  <2>5. QED BY <2>1, <2>2, <2>4
<1>10. ASSUME NEW s \in Sockets, LoggedOut(s) PROVE LinkInv'
  <2>1. socket' = [socket EXCEPT ![s] = "closed"] /\ dialing' = dialing /\ lost' = lost
        /\ link' = [link EXCEPT !.ready = FALSE, !.session = FALSE]
    BY <1>10 DEF LoggedOut
  <2>2. timers' \in Nat /\ timers' > 0  BY <1>10 DEF LoggedOut, SetsTimer
  <2>3. LinkKeepsTrying'  BY <2>2
  <2>4. QED BY <2>1, <2>2, <2>3
<1>11. ASSUME NEW m \in Inbound, HandsOver(m) \/ FilingThrows(m) \/ \E s \in Sockets : Arrives(m, s)
       PROVE LinkInv'
  BY <1>11 DEF HandsOver, FilingThrows, Arrives
<1>12. QED
  BY <1>1, <1>2, <1>3, <1>4, <1>5, <1>6, <1>7, <1>8, <1>9, <1>10, <1>11 DEF LinkNext

(* Until it is stopped the transport is linked, dialling or about to dial,   *)
(* however many sockets it had (linked-device.mjs:87-147, 242-254).          *)
THEOREM LinkTries == ServerSpec => []LinkKeepsTrying
<1>1. ServerInit => LinkInv  BY LinkStart DEF ServerInit
<1>2. LinkInv /\ [ServerNext]_serverVars => LinkInv'
  <2> SUFFICES ASSUME LinkInv, [ServerNext]_serverVars PROVE LinkInv'  OBVIOUS
  <2>1. CASE UNCHANGED linkVars  BY <2>1 DEF linkVars, LinkInv, LinkKeepsTrying, Live
  <2>2. CASE LinkNext  BY <2>2, LinkStep
  <2>3. QED
    BY <2>1, <2>2 DEF ServerNext, serverVars, Requests, KeepsRows, Deploys, KeepsPhotos,
       KeepsPeople, KeepsLink, Works
<1>3. LinkInv => LinkKeepsTrying  BY DEF LinkInv
<1>4. QED BY <1>1, <1>2, <1>3, PTL DEF ServerSpec

\* ---- deployments
(* On the container's own layer only the operator's word or an unreadable    *)
(* database leaves a marker, and nothing records an environment before one.  *)
LayerInv ==
  /\ host \in [mounted : BOOLEAN, env : {"staging", "production"}, init : BOOLEAN]
  /\ service \in {"down", "proved", "seeded", "up"}
  /\ DOMAIN dir = {"volume", "layer"}
  /\ \A d \in {"volume", "layer"} :
       dir[d] \in [marker : {"none", "VOLUME_INIT", "unread", "adopted"}, db : BOOLEAN,
                   env : {"none", "staging", "production"}, sample : BOOLEAN]
  /\ dir["layer"].marker # "adopted"
  /\ dir["layer"].env # "none" => dir["layer"].marker # "none"
  /\ service # "down" => Marked

LEMMA LayerStart == DeployInit => LayerInv
BY DEF DeployInit, LayerInv, Bare, Marked, Data, Here

LEMMA LayerStep == LayerInv /\ DeployNext => LayerInv'
<1> SUFFICES ASSUME LayerInv, DeployNext PROVE LayerInv'  OBVIOUS
<1> USE DEF LayerInv, Marked, Data, Here
<1>1. CASE Stops  BY <1>1 DEF Stops
<1>2. CASE MigratesByHand  BY <1>2 DEF MigratesByHand, Leaves
<1>3. CASE SeedsSample  BY <1>3 DEF SeedsSample, Leaves
<1>4. CASE StartsServer  BY <1>4 DEF StartsServer, Leaves
<1>5. ASSUME NEW whole \in BOOLEAN, SeedsByHand(whole) PROVE LayerInv'
  BY <1>5 DEF SeedsByHand, Leaves
<1>6. ASSUME NEW blind \in BOOLEAN, ProvesVolume(blind) PROVE LayerInv'
  BY <1>6 DEF ProvesVolume, Leaves, LiveDatabase
<1>7. ASSUME NEW mounted \in BOOLEAN, NEW init \in BOOLEAN, NEW env \in {"staging", "production"},
             Redeploys(mounted, env, init)
      PROVE  LayerInv'
  BY <1>7 DEF Redeploys, Bare
<1>8. QED BY <1>1, <1>2, <1>3, <1>4, <1>5, <1>6, <1>7 DEF DeployNext

(* Data is taken on the layer only at the operator's word or after a         *)
(* database that could not be read (bootstrap.mjs:8-45, config.mjs:93-186).  *)
THEOREM LayerStaysEmpty == ServerSpec => []DataStaysOffTheLayer
<1>1. ServerInit => LayerInv  BY LayerStart DEF ServerInit
<1>2. LayerInv /\ [ServerNext]_serverVars => LayerInv'
  <2> SUFFICES ASSUME LayerInv, [ServerNext]_serverVars PROVE LayerInv'  OBVIOUS
  <2>1. CASE UNCHANGED deployVars  BY <2>1 DEF deployVars, LayerInv, Marked, Data, Here
  <2>2. CASE DeployNext  BY <2>2, LayerStep
  <2>3. QED
    BY <2>1, <2>2 DEF ServerNext, serverVars, Requests, KeepsRows, Deploys, KeepsPhotos,
       KeepsPeople, KeepsLink, Works
<1>3. LayerInv => DataStaysOffTheLayer
  BY DEF LayerInv, DataStaysOffTheLayer, Marked, Data, Here
<1>4. QED BY <1>1, <1>2, <1>3, PTL DEF ServerSpec

\* ---- migrate()
(* The ledger and what each migrator believes of it are the first so many    *)
(* files; what is believed was true once, and the file in hand is the next.  *)
FirstFiles(n) == 1 .. n
SchemaRow == [done : [1 .. Files -> Nat], ledger : SUBSET (1 .. Files), version : Nat,
              lock : Booters \cup {NoOne}]
BooterRow == [at : {"down", "pending", "locked", "up"}, applied : SUBSET (1 .. Files), file : 0 .. Files]

\* A migrator believes a prefix of the ledger, and holds the next file of it.
Believes(r, ledger) ==
  /\ \E n \in 0 .. Files : r.applied = FirstFiles(n)
  /\ r.applied \subseteq ledger
  /\ r.at = "locked" => r.file \in NextFile(r.applied)
  /\ r.at = "up" => ledger = 1 .. Files

SchemaInv ==
  /\ schema \in SchemaRow /\ booter \in [Booters -> BooterRow]
  /\ \E n \in 0 .. Files : schema.ledger = FirstFiles(n)
  /\ \A b \in Booters : Believes(booter[b], schema.ledger)
  /\ MigrationsRunOnce

\* After the first n files comes file n + 1, or there is none left.
LEMMA NextOfFirst ==
  ASSUME NEW n \in 0 .. Files, NEW f \in NextFile(FirstFiles(n))
  PROVE  f = n + 1 /\ f \in 1 .. Files
<1>1. f \in 1 .. Files /\ f \notin 1 .. n /\ \A g \in 1 .. f - 1 : g \in 1 .. n
  BY DEF NextFile, FirstFiles
<1>2. Files \in Nat  BY StoreAssumption
<1>3. f > n  BY <1>1, <1>2
<1>4. ~(f > n + 1)
  <2>1. SUFFICES ASSUME f > n + 1 PROVE FALSE  OBVIOUS
  <2>2. n + 1 \in 1 .. f - 1  BY <2>1, <1>1, <1>2
  <2>3. QED BY <2>2, <1>1, <1>2
<1>5. QED BY <1>1, <1>2, <1>3, <1>4

LEMMA NoneAfterAll ==
  ASSUME NEW n \in 0 .. Files, NextFile(FirstFiles(n)) = {}
  PROVE  n = Files
<1>1. Files \in Nat  BY StoreAssumption
<1>2. SUFFICES ASSUME n < Files PROVE FALSE  BY <1>1
<1>3. n + 1 \in NextFile(FirstFiles(n))  BY <1>1, <1>2 DEF NextFile, FirstFiles
<1>4. QED BY <1>3

LEMMA NewestOfAll == Newest(FirstFiles(Files)) = Files
<1>1. Files \in Nat  BY StoreAssumption
<1>2. CASE Files = 0  BY <1>2 DEF Newest, FirstFiles
<1>3. CASE Files > 0
  <2>1. Files \in 1 .. Files /\ \A g \in 1 .. Files : g <= Files  BY <1>1, <1>3
  <2>2. \A f \in 1 .. Files : (\A g \in 1 .. Files : g <= f) => f = Files  BY <2>1, <1>1
  <2>3. QED BY <2>1, <2>2, <1>1 DEF Newest, FirstFiles
<1>4. QED BY <1>1, <1>2, <1>3

LEMMA SchemaStart == StoreInit => SchemaInv
<1> SUFFICES ASSUME StoreInit PROVE SchemaInv  OBVIOUS
<1>1. Files \in Nat  BY StoreAssumption
<1>2. FirstFiles(0) = {}  BY DEF FirstFiles
<1>3. schema \in SchemaRow /\ schema.ledger = {}
  BY <1>1 DEF StoreInit, SchemaRow
<1>4. \A b \in Booters : booter[b] = Down  BY DEF StoreInit
<1>5. Down \in BooterRow /\ Down.at = "down" /\ Down.applied = {}
  BY <1>1 DEF Down, BooterRow
<1>6. \A b \in Booters : Believes(booter[b], schema.ledger)
  BY <1>1, <1>2, <1>3, <1>4, <1>5 DEF Believes
<1>7. booter \in [Booters -> BooterRow]  BY <1>5 DEF StoreInit
<1>8. MigrationsRunOnce
  BY <1>3, <1>4, <1>5 DEF StoreInit, MigrationsRunOnce
<1>9. QED BY <1>1, <1>2, <1>3, <1>6, <1>7, <1>8 DEF SchemaInv

\* The ways a migrator's row changes, and the schema's.
Rereads(r, S) == [r EXCEPT !.at = "pending", !.applied = S]
Takes(r, f) == [r EXCEPT !.at = "locked", !.file = f]
Unlocks(r) == [r EXCEPT !.lock = NoOne]
Counts(d, f) == [d EXCEPT ![f] = @ + 1]
Applies(r, f, S) == [r EXCEPT !.done[f] = @ + 1, !.ledger = S, !.lock = NoOne]

LEMMA BooterRereads ==
  ASSUME NEW r \in BooterRow, NEW S \in SUBSET (1 .. Files)
  PROVE  Rereads(r, S) \in BooterRow /\ Rereads(r, S).at = "pending" /\ Rereads(r, S).applied = S
BY DEF BooterRow, Rereads

LEMMA BooterTakes ==
  ASSUME NEW r \in BooterRow, NEW f \in 1 .. Files
  PROVE  /\ Takes(r, f) \in BooterRow /\ Takes(r, f).at = "locked"
         /\ Takes(r, f).applied = r.applied /\ Takes(r, f).file = f
<1>1. Files \in Nat  BY StoreAssumption
<1>2. f \in 0 .. Files  BY <1>1
<1>3. QED BY <1>2 DEF BooterRow, Takes

LEMMA SchemaUnlocks ==
  ASSUME NEW r \in SchemaRow
  PROVE  /\ Unlocks(r) \in SchemaRow /\ Unlocks(r).done = r.done
         /\ Unlocks(r).ledger = r.ledger /\ Unlocks(r).version = r.version
BY DEF SchemaRow, Unlocks

LEMMA CountsOne ==
  ASSUME NEW d \in [1 .. Files -> Nat], NEW f \in 1 .. Files
  PROVE  /\ Counts(d, f) \in [1 .. Files -> Nat]
         /\ Counts(d, f)[f] = d[f] + 1
         /\ \A g \in (1 .. Files) \ {f} : Counts(d, f)[g] = d[g]
<1>1. d[f] \in Nat  OBVIOUS
<1>2. d[f] + 1 \in Nat  BY <1>1
<1>3. QED BY <1>2 DEF Counts

LEMMA SchemaApplies ==
  ASSUME NEW r \in SchemaRow, NEW S \in SUBSET (1 .. Files), NEW f \in 1 .. Files
  PROVE  /\ Applies(r, f, S) \in SchemaRow /\ Applies(r, f, S).ledger = S
         /\ Applies(r, f, S).version = r.version /\ Applies(r, f, S).done = Counts(r.done, f)
<1>1. r.done \in [1 .. Files -> Nat]  BY DEF SchemaRow
<1>2. Counts(r.done, f) \in [1 .. Files -> Nat]  BY <1>1, CountsOne
<1>3. QED BY <1>2 DEF SchemaRow, Applies, Counts

\* What a step has to show: the migrator that moved, and the ledger.
LEMMA SchemaFrame ==
  ASSUME SchemaInv, NEW b \in Booters, NEW r \in BooterRow, NEW x \in SchemaRow,
         booter' = [booter EXCEPT ![b] = r], schema' = x,
         x.done = schema.done, x.ledger = schema.ledger,
         x.version = schema.version \/ x.version = Files,
         Believes(r, schema.ledger), r.at = "up" => x.version = Files
  PROVE  SchemaInv'
<1>1. booter' \in [Booters -> BooterRow]  BY DEF SchemaInv
<1>2. \A c \in Booters : Believes(booter'[c], x.ledger)  BY DEF SchemaInv
<1>3. \A c \in Booters : booter'[c].at = "up" => x.ledger = 1 .. Files /\ x.version = Files
  BY DEF SchemaInv, MigrationsRunOnce, Believes
<1>4. \A f \in 1 .. Files : x.done[f] = IF f \in x.ledger THEN 1 ELSE 0
  BY DEF SchemaInv, MigrationsRunOnce
<1>5. MigrationsRunOnce'  BY <1>3, <1>4 DEF MigrationsRunOnce
<1>6. (\A c \in Booters : Believes(booter[c], schema.ledger))'
  BY <1>2 DEF Believes, NextFile, FirstFiles
<1>7. QED BY <1>1, <1>5, <1>6 DEF SchemaInv, SchemaRow, BooterRow, FirstFiles, NoOne

LEMMA FileApplied ==
  ASSUME SchemaInv, NEW b \in Booters, AppliesFile(b)
  PROVE  SchemaInv'
<1> DEFINE f == booter[b].file
           now == schema.ledger \cup {f}
           r == Rereads(booter[b], now)
           x == Applies(schema, f, now)
<1>0. Files \in Nat  BY StoreAssumption
<1>1. PICK n \in 0 .. Files : schema.ledger = FirstFiles(n)  BY DEF SchemaInv
<1>2. PICK k \in 0 .. Files : booter[b].applied = FirstFiles(k)  BY DEF SchemaInv, Believes
<1>3. f = k + 1 /\ f \in 1 .. Files
  BY <1>2, NextOfFirst DEF AppliesFile, SchemaInv, Believes
<1>4. f \notin FirstFiles(n)  BY <1>1 DEF AppliesFile, Reread
<1>5. n = k
  <2>1. FirstFiles(k) \subseteq FirstFiles(n)  BY <1>1, <1>2 DEF SchemaInv, Believes
  <2>2. k = 0 \/ k \in FirstFiles(k)  BY <1>0 DEF FirstFiles
  <2>3. k <= n  BY <2>1, <2>2, <1>0 DEF FirstFiles
  <2>4. QED BY <2>3, <1>3, <1>4, <1>0 DEF FirstFiles
<1>6. now = FirstFiles(n + 1) /\ n + 1 \in 0 .. Files /\ now \in SUBSET (1 .. Files)
  BY <1>1, <1>3, <1>5, <1>0 DEF FirstFiles
<1>7. schema' = x /\ booter' = [booter EXCEPT ![b] = r]
  BY DEF AppliesFile, Reread, Rereads, Applies
<1>8. f \notin schema.ledger  BY <1>1, <1>4
<1>9. \A c \in Booters : booter[c].at # "up"
  BY <1>3, <1>8 DEF SchemaInv, MigrationsRunOnce
<1> HIDE DEF f, now
<1>10. r \in BooterRow /\ r.at = "pending" /\ r.applied = now
  <2>1. booter[b] \in BooterRow  BY DEF SchemaInv
  <2>2. QED BY <2>1, <1>6, BooterRereads
<1>11. x \in SchemaRow /\ x.ledger = now /\ x.done = Counts(schema.done, f)
  <2>1. schema \in SchemaRow  BY DEF SchemaInv
  <2>2. QED BY <2>1, <1>3, <1>6, SchemaApplies
<1> HIDE DEF r, x
<1>12. booter' \in [Booters -> BooterRow]  BY <1>7, <1>10 DEF SchemaInv
<1>13. \A c \in Booters : booter'[c].at # "up" /\ Believes(booter'[c], now)
  <2>1. \A c \in Booters \ {b} : booter'[c] = booter[c]  BY <1>7 DEF SchemaInv
  <2>2. booter'[b] = r  BY <1>7 DEF SchemaInv
  <2>3. Believes(r, now) /\ r.at # "up"  BY <1>6, <1>10 DEF Believes
  <2>4. \A c \in Booters : Believes(booter[c], now)
    BY <1>9 DEF SchemaInv, Believes, now
  <2>5. QED BY <2>1, <2>2, <2>3, <2>4, <1>9
<1>14. \A g \in 1 .. Files : x.done[g] = IF g \in now THEN 1 ELSE 0
  <2>1. schema.done \in [1 .. Files -> Nat]  BY DEF SchemaInv, SchemaRow
  <2>2. \A g \in 1 .. Files : schema.done[g] = IF g \in schema.ledger THEN 1 ELSE 0
    BY DEF SchemaInv, MigrationsRunOnce
  <2>3. schema.done[f] = 0  BY <2>2, <1>3, <1>8
  <2>4. x.done[f] = 1 /\ \A g \in (1 .. Files) \ {f} : x.done[g] = schema.done[g]
    <3>1. Counts(schema.done, f)[f] = 0 + 1  BY <2>1, <2>3, <1>3, CountsOne
    <3>2. \A g \in (1 .. Files) \ {f} : Counts(schema.done, f)[g] = schema.done[g]
      BY <2>1, <1>3, CountsOne
    <3>3. QED BY <3>1, <3>2, <1>11
  <2>5. \A g \in (1 .. Files) \ {f} : g \in now <=> g \in schema.ledger
    BY DEF now
  <2>6. f \in now  BY DEF now
  <2>7. QED BY <2>2, <2>4, <2>5, <2>6
<1>15. MigrationsRunOnce'  BY <1>7, <1>11, <1>13, <1>14 DEF MigrationsRunOnce
<1>16. (\A c \in Booters : Believes(booter[c], schema.ledger))'
  BY <1>7, <1>11, <1>13 DEF Believes, NextFile, FirstFiles
<1>17. QED
  BY <1>6, <1>7, <1>11, <1>12, <1>15, <1>16 DEF SchemaInv, SchemaRow, BooterRow, FirstFiles, NoOne

LEMMA SchemaStep == SchemaInv /\ SchemaNext => SchemaInv'
<1> SUFFICES ASSUME SchemaInv, NEW b \in Booters,
                    \/ ReadApplied(b) \/ FindsFileDone(b) \/ AppliesFile(b)
                    \/ BootFails(b) \/ Boots(b) \/ Restarts(b)
                    \/ \E f \in 1 .. Files : BeginFile(b, f)
             PROVE  SchemaInv'
  BY DEF SchemaNext
<1>1. Files \in Nat  BY StoreAssumption
<1>2. PICK n \in 0 .. Files : schema.ledger = FirstFiles(n)  BY DEF SchemaInv
<1>3. schema \in SchemaRow /\ booter[b] \in BooterRow /\ schema.ledger \in SUBSET (1 .. Files)
      /\ Believes(booter[b], schema.ledger)
  BY DEF SchemaInv, SchemaRow
<1>4. Down \in BooterRow /\ Believes(Down, schema.ledger) /\ Down.at = "down"
  <2>1. FirstFiles(0) = {} /\ 0 \in 0 .. Files  BY <1>1 DEF FirstFiles
  <2>2. QED BY <2>1 DEF Down, BooterRow, Believes
<1>5. CASE ReadApplied(b)
  <2> DEFINE r == [at |-> "pending", applied |-> schema.ledger, file |-> 0]
  <2>1. r \in BooterRow /\ r.at = "pending" /\ r.applied = schema.ledger  BY <1>1, <1>3 DEF BooterRow
  <2>2. booter' = [booter EXCEPT ![b] = r] /\ schema' = schema  BY <1>5 DEF ReadApplied
  <2> HIDE DEF r
  <2>3. Believes(r, schema.ledger)  BY <1>2, <2>1 DEF Believes
  <2>4. QED BY <1>3, <2>1, <2>2, <2>3, SchemaFrame
<1>6. CASE FindsFileDone(b)
  <2> DEFINE r == Rereads(booter[b], schema.ledger)
             x == Unlocks(schema)
  <2>1. booter' = [booter EXCEPT ![b] = r] /\ schema' = x
    BY <1>6 DEF FindsFileDone, Reread, Rereads, Unlocks
  <2>2. r \in BooterRow /\ r.at = "pending" /\ r.applied = schema.ledger
    BY <1>3, BooterRereads
  <2>3. x \in SchemaRow /\ x.done = schema.done /\ x.ledger = schema.ledger /\ x.version = schema.version
    BY <1>3, SchemaUnlocks
  <2> HIDE DEF r, x
  <2>4. Believes(r, schema.ledger)  BY <1>2, <2>2 DEF Believes
  <2>5. QED BY <2>1, <2>2, <2>3, <2>4, SchemaFrame
<1>7. CASE AppliesFile(b)  BY <1>7, FileApplied
<1>8. CASE BootFails(b)
  <2> DEFINE x == [schema EXCEPT !.lock = IF schema.lock = b THEN NoOne ELSE schema.lock]
  <2>1. booter' = [booter EXCEPT ![b] = Down] /\ schema' = x  BY <1>8 DEF BootFails
  <2>2. x \in SchemaRow /\ x.done = schema.done /\ x.ledger = schema.ledger /\ x.version = schema.version
    BY <1>3 DEF SchemaRow
  <2> HIDE DEF x
  <2>3. QED BY <1>4, <2>1, <2>2, SchemaFrame
<1>9. CASE Boots(b)
  <2> DEFINE r == [booter[b] EXCEPT !.at = "up"]
             x == [schema EXCEPT !.version = Files]
  <2>1. PICK k \in 0 .. Files : booter[b].applied = FirstFiles(k)  BY <1>3 DEF Believes
  <2>2. k = Files  BY <1>9, <2>1, NoneAfterAll DEF Boots
  <2>3. schema.ledger = 1 .. Files  BY <1>3, <2>1, <2>2 DEF FirstFiles, Believes
  <2>4. schema' = x  BY <1>9, <2>1, <2>2, NewestOfAll DEF Boots
  <2>5. booter' = [booter EXCEPT ![b] = r]  BY <1>9 DEF Boots
  <2>6. r \in BooterRow /\ r.at = "up" /\ r.applied = booter[b].applied
    BY <1>3 DEF BooterRow
  <2>7. x \in SchemaRow /\ x.done = schema.done /\ x.ledger = schema.ledger /\ x.version = Files
    BY <1>1, <1>3 DEF SchemaRow
  <2> HIDE DEF r, x
  <2>8. Believes(r, schema.ledger)  BY <2>3, <2>6, <1>3 DEF Believes
  <2>9. QED BY <2>4, <2>5, <2>6, <2>7, <2>8, SchemaFrame
<1>10. CASE Restarts(b)
  BY <1>3, <1>4, <1>10, SchemaFrame DEF Restarts
<1>11. ASSUME NEW f \in 1 .. Files, BeginFile(b, f) PROVE SchemaInv'
  <2> DEFINE r == Takes(booter[b], f)
             x == [schema EXCEPT !.lock = b]
  <2>1. booter' = [booter EXCEPT ![b] = r] /\ schema' = x /\ f \in NextFile(booter[b].applied)
    BY <1>11 DEF BeginFile, Takes
  <2>2. r \in BooterRow /\ r.at = "locked" /\ r.applied = booter[b].applied /\ r.file = f
    BY <1>3, <1>11, BooterTakes
  <2>3. x \in SchemaRow /\ x.done = schema.done /\ x.ledger = schema.ledger /\ x.version = schema.version
    BY <1>3 DEF SchemaRow
  <2> HIDE DEF r, x
  <2>4. Believes(r, schema.ledger)  BY <1>3, <2>1, <2>2 DEF Believes
  <2>5. QED BY <2>1, <2>2, <2>3, <2>4, SchemaFrame
<1>12. QED BY <1>5, <1>6, <1>7, <1>8, <1>9, <1>10, <1>11

(* Any number of processes that migrate any number of files run each file    *)
(* once, and are up on the whole schema (db.mjs:77-156).                     *)
THEOREM MigratesOnce == ServerSpec => []MigrationsRunOnce
<1>1. ServerInit => SchemaInv  BY SchemaStart DEF ServerInit
<1>2. SchemaInv /\ [ServerNext]_serverVars => SchemaInv'
  <2> SUFFICES ASSUME SchemaInv, [ServerNext]_serverVars PROVE SchemaInv'  OBVIOUS
  <2>1. CASE UNCHANGED schemaVars
    BY <2>1 DEF schemaVars, SchemaInv, MigrationsRunOnce, Believes, NextFile, FirstFiles,
       SchemaRow, BooterRow, NoOne
  <2>2. CASE SchemaNext  BY <2>2, SchemaStep
  <2>3. CASE TxNext
    <3>1. UNCHANGED schemaVars
      BY <2>3 DEF TxNext, EntersTx, ReturnsTx, ThrowsTx, LosesConnection, Writes
    <3>2. QED BY <3>1, <2>1
  <2>4. QED
    BY <2>1, <2>2, <2>3 DEF ServerNext, serverVars, storeVars, Requests, KeepsRows, Deploys,
       KeepsPhotos, KeepsPeople, KeepsLink, Works
<1>3. SchemaInv => MigrationsRunOnce  BY DEF SchemaInv
<1>4. QED BY <1>1, <1>2, <1>3, PTL DEF ServerSpec
\* ---- tx()
(* Every call under way has the rows its callers wrote before it saved: the  *)
(* first in the file itself, the others in a savepoint each.                 *)
FrameRow == [nested : BOOLEAN, wrote : SUBSET Values]
ConnRow == [open : BOOLEAN, work : SUBSET Values, saves : Seq(SUBSET Values)]

\* What the first n calls under way wrote.
Wrote(fr, n) == UNION {fr[j].wrote : j \in 1 .. n}

Nests(fr, cn, gr) ==
  /\ fr \in Seq(FrameRow) /\ cn \in ConnRow /\ gr \subseteq Values
  /\ (cn.open = TRUE) <=> (Len(fr) > 0)
  /\ Len(cn.saves) = IF Len(fr) = 0 THEN 0 ELSE Len(fr) - 1
  /\ \A i \in 1 .. Len(fr) : (fr[i].nested = TRUE) <=> (i > 1)
  /\ cn.work = gr \cup Wrote(fr, Len(fr))
  /\ \A i \in 1 .. Len(cn.saves) : cn.saves[i] = gr \cup Wrote(fr, i)

TxInv == disk = granted /\ Nests(frames, conn, granted)

LEMMA NoneLeft ==
  ASSUME NEW T, NEW s \in Seq(T)
  PROVE  s = <<>> <=> Len(s) = 0
OBVIOUS

LEMMA OneOrMore ==
  ASSUME NEW n \in Nat, n > 0
  PROVE  n = 1 \/ n > 1
OBVIOUS

LEMMA FrontIs ==
  ASSUME NEW T, NEW s \in Seq(T), Len(s) > 0
  PROVE  /\ Front(s) \in Seq(T) /\ Len(Front(s)) = Len(s) - 1
         /\ \A i \in 1 .. Len(s) - 1 : Front(s)[i] = s[i]
<1>1. \A i \in 1 .. Len(s) - 1 : s[i] \in T  OBVIOUS
<1>2. Len(s) \in Nat  OBVIOUS
<1> DEFINE n == Len(s) - 1
<1>3. n \in Nat  BY <1>2
<1>4. \A i \in 1 .. n : s[i] \in T  BY <1>1
<1> HIDE DEF n
<1>5. n \in Int /\ 1 \in Int /\ (1 <= n \/ n = 0) /\ n - 1 + 1 = n  BY <1>3
<1>6. /\ SubSeq(s, 1, n) \in Seq(T)
      /\ Len(SubSeq(s, 1, n)) = IF 1 <= n THEN n - 1 + 1 ELSE 0
      /\ \A i \in 1 .. n - 1 + 1 : SubSeq(s, 1, n)[i] = s[1 + i - 1]
  BY <1>5, <1>4, SubSeqProperties
<1>7. \A i \in 1 .. n : 1 + i - 1 = i  BY <1>5
<1>8. /\ SubSeq(s, 1, n) \in Seq(T) /\ Len(SubSeq(s, 1, n)) = n
      /\ \A i \in 1 .. n : SubSeq(s, 1, n)[i] = s[i]
  BY <1>5, <1>6, <1>7
<1>9. QED BY <1>8 DEF Front, n

LEMMA AppendIs ==
  ASSUME NEW T, NEW s \in Seq(T), NEW x \in T
  PROVE  /\ Append(s, x) \in Seq(T) /\ Len(Append(s, x)) = Len(s) + 1
         /\ Append(s, x)[Len(s) + 1] = x
         /\ \A i \in 1 .. Len(s) : Append(s, x)[i] = s[i]
OBVIOUS

\* The deepest call writes S.
Adds(fr, S) == [fr EXCEPT ![Len(fr)].wrote = @ \cup S]

LEMMA AddsIs ==
  ASSUME NEW fr \in Seq(FrameRow), Len(fr) > 0, NEW S \in SUBSET Values
  PROVE  /\ Adds(fr, S) \in Seq(FrameRow) /\ Len(Adds(fr, S)) = Len(fr)
         /\ \A i \in 1 .. Len(fr) : Adds(fr, S)[i].nested = fr[i].nested
         /\ \A i \in 1 .. Len(fr) - 1 : Adds(fr, S)[i].wrote = fr[i].wrote
         /\ Adds(fr, S)[Len(fr)].wrote = fr[Len(fr)].wrote \cup S
<1>1. Len(fr) \in 1 .. Len(fr) /\ fr[Len(fr)] \in FrameRow  OBVIOUS
<1>2. [fr[Len(fr)] EXCEPT !.wrote = @ \cup S] \in FrameRow  BY <1>1 DEF FrameRow
<1>3. Adds(fr, S) = [fr EXCEPT ![Len(fr)] = [fr[Len(fr)] EXCEPT !.wrote = @ \cup S]]
  BY DEF Adds
<1>4. Adds(fr, S) \in Seq(FrameRow) /\ Len(Adds(fr, S)) = Len(fr)
  BY <1>1, <1>2, <1>3
<1>5. \A i \in 1 .. Len(fr) - 1 : Adds(fr, S)[i] = fr[i]  BY <1>1, <1>3
<1>6. Adds(fr, S)[Len(fr)] = [fr[Len(fr)] EXCEPT !.wrote = @ \cup S]
  <2> DEFINE y == [fr[Len(fr)] EXCEPT !.wrote = @ \cup S]
  <2>1. y \in FrameRow /\ Adds(fr, S) = [fr EXCEPT ![Len(fr)] = y]  BY <1>2, <1>3
  <2> HIDE DEF y
  <2>2. Adds(fr, S)[Len(fr)] = y  BY <1>1, <2>1
  <2>3. QED BY <2>2 DEF y
<1>7. Adds(fr, S)[Len(fr)].nested = fr[Len(fr)].nested /\ Adds(fr, S)[Len(fr)].wrote = fr[Len(fr)].wrote \cup S
  BY <1>1, <1>6 DEF FrameRow
<1>8. \A i \in 1 .. Len(fr) : i \in 1 .. Len(fr) - 1 \/ i = Len(fr)  OBVIOUS
<1>9. QED BY <1>4, <1>5, <1>7, <1>8

\* What is written is the same for calls that wrote the same.
LEMMA SameWrote ==
  ASSUME NEW n \in Nat, NEW f, NEW g, \A j \in 1 .. n : f[j].wrote = g[j].wrote
  PROVE  Wrote(f, n) = Wrote(g, n)
BY DEF Wrote

LEMMA WroteOne ==
  ASSUME NEW n \in Nat \ {0}, NEW f
  PROVE  Wrote(f, n) = Wrote(f, n - 1) \cup f[n].wrote
<1>1. 1 .. n = (1 .. n - 1) \cup {n}  OBVIOUS
<1>2. QED BY <1>1 DEF Wrote

LEMMA TxStart == StoreInit => TxInv
<1> SUFFICES ASSUME StoreInit PROVE TxInv  OBVIOUS
<1>1. frames = <<>> /\ disk = {} /\ granted = {} /\ conn = Closed({})  BY DEF StoreInit
<1>2. conn \in ConnRow /\ conn.open = FALSE /\ conn.work = {} /\ Len(conn.saves) = 0
  BY <1>1 DEF Closed, ConnRow
<1>3. frames \in Seq(FrameRow) /\ Len(frames) = 0  BY <1>1
<1>4. Wrote(frames, 0) = {}  BY DEF Wrote
<1>5. \A i \in 1 .. Len(frames) : (frames[i].nested = TRUE) <=> (i > 1)  BY <1>3
<1>6. \A i \in 1 .. Len(conn.saves) : conn.saves[i] = granted \cup Wrote(frames, i)  BY <1>2
<1>7. (conn.open = TRUE) <=> (Len(frames) > 0)  BY <1>2, <1>3
<1>8. conn.work = granted \cup Wrote(frames, Len(frames))  BY <1>1, <1>2, <1>3, <1>4
<1>9. QED BY <1>1, <1>2, <1>3, <1>5, <1>6, <1>7, <1>8 DEF TxInv, Nests

LEMMA TxEnters == TxInv /\ EntersTx => TxInv'
<1> SUFFICES ASSUME TxInv, EntersTx PROVE TxInv'  OBVIOUS
<1> DEFINE x == [nested |-> conn.open, wrote |-> {}]
           fr == Append(frames, x)
<1>1. frames \in Seq(FrameRow) /\ conn \in ConnRow /\ granted \subseteq Values /\ Len(frames) \in Nat
  BY DEF TxInv, Nests
<1>2. x \in FrameRow /\ x.nested = conn.open /\ x.wrote = {}  BY <1>1 DEF FrameRow, ConnRow
<1>3. frames' = fr /\ disk' = granted /\ granted' = granted  BY DEF EntersTx, TxInv
<1> HIDE DEF x
<1>4. fr \in Seq(FrameRow) /\ Len(fr) = Len(frames) + 1 /\ fr[Len(fr)] = x
      /\ \A i \in 1 .. Len(frames) : fr[i] = frames[i]
  BY <1>1, <1>2, AppendIs
<1> HIDE DEF fr
<1>5. \A n \in 0 .. Len(frames) : Wrote(fr, n) = Wrote(frames, n)
  <2> TAKE n \in 0 .. Len(frames)
  <2>1. n \in Nat /\ \A j \in 1 .. n : fr[j].wrote = frames[j].wrote  BY <1>1, <1>4
  <2>2. QED BY <2>1, SameWrote
<1>6. Wrote(fr, Len(fr)) = Wrote(frames, Len(frames))
  <2>1. Len(fr) \in Nat \ {0} /\ Len(fr) - 1 = Len(frames)  BY <1>1, <1>4
  <2>2. Wrote(fr, Len(fr)) = Wrote(fr, Len(frames)) \cup fr[Len(fr)].wrote  BY <2>1, WroteOne
  <2>3. QED BY <2>2, <1>1, <1>2, <1>4, <1>5
<1>7. \A i \in 1 .. Len(fr) : (fr[i].nested = TRUE) <=> (i > 1)
  <2>1. \A i \in 1 .. Len(frames) : (fr[i].nested = TRUE) <=> (i > 1)  BY <1>4 DEF TxInv, Nests
  <2>2. (fr[Len(fr)].nested = TRUE) <=> (Len(fr) > 1)  BY <1>1, <1>2, <1>4 DEF TxInv, Nests
  <2>3. \A i \in 1 .. Len(fr) : i \in 1 .. Len(frames) \/ i = Len(fr)  BY <1>1, <1>4
  <2>4. QED BY <2>1, <2>2, <2>3
<1>8. CASE conn.open = TRUE
  <2> DEFINE cn == [conn EXCEPT !.saves = Append(conn.saves, conn.work)]
  <2>1. conn' = cn  BY <1>8 DEF EntersTx
  <2>2. conn.saves \in Seq(SUBSET Values) /\ conn.work \in SUBSET Values  BY <1>1 DEF ConnRow
  <2>3. Append(conn.saves, conn.work) \in Seq(SUBSET Values)  BY <2>2, AppendIs
  <2>4. cn \in ConnRow /\ cn.open = TRUE /\ cn.work = conn.work /\ cn.saves = Append(conn.saves, conn.work)
    BY <1>1, <1>8, <2>3 DEF ConnRow
  <2> HIDE DEF cn
  <2>5. Len(conn.saves) = Len(frames) - 1 /\ Len(frames) > 0  BY <1>8, <1>1 DEF TxInv, Nests
  <2>6. Len(cn.saves) = Len(frames) /\ cn.saves[Len(frames)] = conn.work
        /\ \A i \in 1 .. Len(frames) - 1 : cn.saves[i] = conn.saves[i]
    BY <2>2, <2>4, <2>5, <1>1, AppendIs
  <2>7. \A i \in 1 .. Len(frames) : cn.saves[i] = granted \cup Wrote(fr, i)
    <3> TAKE i \in 1 .. Len(frames)
    <3>1. CASE i = Len(frames)  BY <3>1, <2>6, <1>1, <1>5 DEF TxInv, Nests
    <3>2. CASE i # Len(frames)
      <4>1. i \in 1 .. Len(frames) - 1 /\ i \in 0 .. Len(frames)  BY <3>2, <1>1
      <4>2. QED BY <4>1, <2>5, <2>6, <1>5 DEF TxInv, Nests
    <3>3. QED BY <3>1, <3>2
  <2>8. Nests(fr, cn, granted)
    BY <1>1, <1>4, <1>6, <1>7, <2>4, <2>5, <2>6, <2>7 DEF TxInv, Nests
  <2>9. QED BY <1>3, <2>1, <2>8 DEF TxInv
<1>9. CASE conn.open # TRUE
  <2> DEFINE cn == [open |-> TRUE, work |-> granted, saves |-> <<>>]
  <2>1. conn' = cn  BY <1>1, <1>9 DEF EntersTx, TxInv, ConnRow
  <2>2. cn \in ConnRow /\ cn.open = TRUE /\ cn.work = granted /\ Len(cn.saves) = 0
    BY <1>1 DEF ConnRow
  <2> HIDE DEF cn
  <2>3. Len(frames) = 0
    <3>1. ~(Len(frames) > 0)  BY <1>9 DEF TxInv, Nests
    <3>2. QED BY <3>1, <1>1
  <2>4. Wrote(frames, 0) = {}  BY DEF Wrote
  <2>5. Nests(fr, cn, granted)
    BY <1>1, <1>4, <1>6, <1>7, <2>2, <2>3, <2>4 DEF Nests
  <2>6. QED BY <1>3, <2>1, <2>5 DEF TxInv
<1>10. QED BY <1>8, <1>9

LEMMA TxWrites == \A v \in Values : TxInv /\ Writes(v) => TxInv'
<1> SUFFICES ASSUME TxInv, NEW v \in Values, Writes(v) PROVE TxInv'  OBVIOUS
<1> DEFINE cn == [conn EXCEPT !.work = @ \cup {v}]
<1>1. frames \in Seq(FrameRow) /\ conn \in ConnRow /\ granted \subseteq Values /\ Len(frames) \in Nat
  BY DEF TxInv, Nests
<1>2. conn' = cn  BY DEF Writes
<1>3. cn \in ConnRow /\ cn.open = conn.open /\ cn.work = conn.work \cup {v} /\ cn.saves = conn.saves
  BY <1>1 DEF ConnRow
<1> HIDE DEF cn
<1>4. CASE Len(frames) = 0
  <2>0. ~(Len(frames) > 0)  BY <1>4
  <2>1. conn.open # TRUE  BY <2>0 DEF TxInv, Nests
  <2>2. frames = <<>> /\ frames' = frames /\ granted' = granted \cup {v} /\ disk' = cn.work
    BY <1>1, <1>2, <1>4, <2>1, NoneLeft DEF Writes, ConnRow
  <2>3. Wrote(frames, 0) = {}  BY DEF Wrote
  <2>4. conn.work = granted  BY <1>4, <2>3 DEF TxInv, Nests
  <2>5. Nests(frames, cn, granted \cup {v})
    <3>1. Len(cn.saves) = 0 /\ cn.open # TRUE  BY <1>3, <1>4, <2>1 DEF TxInv, Nests
    <3>2. \A i \in 1 .. Len(cn.saves) : cn.saves[i] = granted \cup {v} \cup Wrote(frames, i)  BY <3>1
    <3>3. \A i \in 1 .. Len(frames) : (frames[i].nested = TRUE) <=> (i > 1)  BY <1>4
    <3>4. cn.work = granted \cup {v} \cup Wrote(frames, Len(frames))  BY <1>3, <1>4, <2>3, <2>4
    <3>5. (cn.open = TRUE) <=> (Len(frames) > 0)  BY <2>0, <3>1
    <3>6. QED BY <1>1, <1>3, <1>4, <3>1, <3>2, <3>3, <3>4, <3>5 DEF Nests
  <2>6. QED BY <1>2, <1>3, <2>2, <2>4, <2>5 DEF TxInv
<1>5. CASE Len(frames) > 0
  <2> DEFINE fr == Adds(frames, {v})
  <2>1. conn.open = TRUE  BY <1>5 DEF TxInv, Nests
  <2>2. frames' = fr /\ granted' = granted /\ disk' = disk
    BY <1>1, <1>5, <2>1, NoneLeft DEF Writes, Adds
  <2>3. {v} \in SUBSET Values  OBVIOUS
  <2>4. /\ fr \in Seq(FrameRow) /\ Len(fr) = Len(frames)
        /\ \A i \in 1 .. Len(frames) : fr[i].nested = frames[i].nested
        /\ \A i \in 1 .. Len(frames) - 1 : fr[i].wrote = frames[i].wrote
        /\ fr[Len(frames)].wrote = frames[Len(frames)].wrote \cup {v}
    BY <1>1, <1>5, <2>3, AddsIs
  <2> HIDE DEF fr
  <2>5. \A n \in 0 .. Len(frames) - 1 : Wrote(fr, n) = Wrote(frames, n)
    <3> TAKE n \in 0 .. Len(frames) - 1
    <3>1. n \in Nat /\ \A j \in 1 .. n : fr[j].wrote = frames[j].wrote  BY <1>1, <2>4
    <3>2. QED BY <3>1, SameWrote
  <2>6. Wrote(fr, Len(fr)) = Wrote(frames, Len(frames)) \cup {v}
    <3>1. Len(frames) \in Nat \ {0} /\ Len(frames) - 1 \in 0 .. Len(frames) - 1  BY <1>1, <1>5
    <3>2. Wrote(fr, Len(frames)) = Wrote(fr, Len(frames) - 1) \cup fr[Len(frames)].wrote
      BY <3>1, WroteOne
    <3>3. Wrote(frames, Len(frames)) = Wrote(frames, Len(frames) - 1) \cup frames[Len(frames)].wrote
      BY <3>1, WroteOne
    <3>4. Wrote(fr, Len(frames) - 1) = Wrote(frames, Len(frames) - 1)  BY <3>1, <2>5
    <3>5. QED BY <3>2, <3>3, <3>4, <2>4
  <2>7. Nests(fr, cn, granted)
    <3>1. cn.open = TRUE /\ Len(cn.saves) = Len(frames) - 1
      BY <1>1, <1>3, <1>5, <2>1 DEF TxInv, Nests
    <3>2. \A i \in 1 .. Len(cn.saves) : cn.saves[i] = granted \cup Wrote(fr, i)
      BY <1>1, <1>3, <3>1, <2>5 DEF TxInv, Nests
    <3>3. \A i \in 1 .. Len(fr) : (fr[i].nested = TRUE) <=> (i > 1)
      BY <1>1, <2>4 DEF TxInv, Nests
    <3>4. cn.work = granted \cup Wrote(fr, Len(fr))  BY <1>3, <2>6 DEF TxInv, Nests
    <3>5. QED BY <1>1, <1>3, <1>5, <2>4, <3>1, <3>2, <3>3, <3>4 DEF Nests
  <2>8. QED BY <1>2, <2>2, <2>7 DEF TxInv
<1>6. QED BY <1>1, <1>4, <1>5

\* Nothing under way, and the file as the rows of a set.
LEMMA ClosedNests ==
  ASSUME NEW S \in SUBSET Values
  PROVE  Nests(<<>>, Closed(S), S)
<1>1. Closed(S) \in ConnRow /\ Closed(S).open = FALSE /\ Closed(S).work = S /\ Len(Closed(S).saves) = 0
  BY DEF Closed, ConnRow
<1> DEFINE fr == <<>>
<1>2. fr \in Seq(FrameRow) /\ Len(fr) = 0  OBVIOUS
<1> HIDE DEF fr
<1>3. Wrote(fr, Len(fr)) = {}  BY <1>2 DEF Wrote
<1>4. ~(Len(fr) > 0)  BY <1>2
<1>5. (Closed(S).open = TRUE) <=> (Len(fr) > 0)  BY <1>1, <1>4
<1>6. \A i \in 1 .. Len(fr) : (fr[i].nested = TRUE) <=> (i > 1)  BY <1>2
<1>7. \A i \in 1 .. Len(Closed(S).saves) : Closed(S).saves[i] = S \cup Wrote(fr, i)  BY <1>1
<1>8. Nests(fr, Closed(S), S)  BY <1>1, <1>2, <1>3, <1>5, <1>6, <1>7 DEF Nests
<1>9. QED BY <1>8 DEF fr

LEMMA TxLoses == TxInv /\ LosesConnection => TxInv'
<1> SUFFICES ASSUME TxInv, LosesConnection PROVE TxInv'  OBVIOUS
<1>1. granted \in SUBSET Values  BY DEF TxInv, Nests
<1>2. Nests(<<>>, Closed(granted), granted)  BY <1>1, ClosedNests
<1>3. frames' = <<>> /\ conn' = Closed(granted) /\ granted' = granted /\ disk' = granted
  BY DEF LosesConnection, TxInv
<1>4. QED BY <1>2, <1>3 DEF TxInv

\* The call that ends, and the ones it leaves.
LEMMA TxOuter ==
  ASSUME TxInv, Len(frames) > 0
  PROVE  /\ Front(frames) \in Seq(FrameRow) /\ Len(Front(frames)) = Len(frames) - 1
         /\ \A i \in 1 .. Len(frames) - 1 : Front(frames)[i] = frames[i]
         /\ \A n \in 0 .. Len(frames) - 1 : Wrote(Front(frames), n) = Wrote(frames, n)
         /\ Wrote(frames, Len(frames)) = Wrote(frames, Len(frames) - 1) \cup Deepest.wrote
         /\ (Deepest.nested = TRUE) <=> (Len(frames) > 1)
         /\ Deepest \in FrameRow
<1>1. frames \in Seq(FrameRow) /\ Len(frames) \in Nat  BY DEF TxInv, Nests
<1>2. /\ Front(frames) \in Seq(FrameRow) /\ Len(Front(frames)) = Len(frames) - 1
      /\ \A i \in 1 .. Len(frames) - 1 : Front(frames)[i] = frames[i]
  BY <1>1, FrontIs
<1>3. \A n \in 0 .. Len(frames) - 1 : Wrote(Front(frames), n) = Wrote(frames, n)
  <2> TAKE n \in 0 .. Len(frames) - 1
  <2>1. n \in Nat /\ \A j \in 1 .. n : Front(frames)[j].wrote = frames[j].wrote  BY <1>1, <1>2
  <2>2. QED BY <2>1, SameWrote
<1>4. Wrote(frames, Len(frames)) = Wrote(frames, Len(frames) - 1) \cup Deepest.wrote
  BY <1>1, WroteOne DEF Deepest
<1>5. Len(frames) \in 1 .. Len(frames)  BY <1>1
<1>6. (Deepest.nested = TRUE) <=> (Len(frames) > 1)  BY <1>5 DEF TxInv, Nests, Deepest
<1>7. Deepest \in FrameRow  BY <1>1, <1>5 DEF Deepest
<1>8. QED BY <1>2, <1>3, <1>4, <1>6, <1>7

\* A savepoint is released or rolled back to: the caller has its rows, or not.
LEMMA TxPops ==
  ASSUME TxInv, Len(frames) > 1, NEW fr \in Seq(FrameRow), NEW work \in SUBSET Values,
         Len(fr) = Len(frames) - 1,
         \A i \in 1 .. Len(fr) : fr[i].nested = frames[i].nested,
         \A i \in 1 .. Len(fr) - 1 : fr[i].wrote = frames[i].wrote,
         work = granted \cup Wrote(fr, Len(fr)),
         NEW cn \in ConnRow, cn.open = TRUE, cn.work = work, cn.saves = Front(conn.saves)
  PROVE  Nests(fr, cn, granted)
<1>1. frames \in Seq(FrameRow) /\ conn \in ConnRow /\ granted \subseteq Values /\ Len(frames) \in Nat
  BY DEF TxInv, Nests
<1>2. conn.saves \in Seq(SUBSET Values) /\ Len(conn.saves) = Len(frames) - 1
  BY <1>1 DEF TxInv, Nests, ConnRow
<1>3. Len(cn.saves) = Len(frames) - 2 /\ \A i \in 1 .. Len(frames) - 2 : cn.saves[i] = conn.saves[i]
  <2>1. Len(conn.saves) > 0  BY <1>1, <1>2
  <2>2. Len(cn.saves) = Len(conn.saves) - 1 /\ \A i \in 1 .. Len(conn.saves) - 1 : cn.saves[i] = conn.saves[i]
    BY <1>2, <2>1, FrontIs
  <2>3. Len(conn.saves) - 1 = Len(frames) - 2  BY <1>1, <1>2
  <2>4. QED BY <2>2, <2>3
<1>4. \A i \in 1 .. Len(cn.saves) : cn.saves[i] = granted \cup Wrote(fr, i)
  <2> TAKE i \in 1 .. Len(cn.saves)
  <2>1. i \in 1 .. Len(frames) - 2 /\ i \in Nat /\ i \in 1 .. Len(conn.saves)  BY <1>1, <1>2, <1>3
  <2>2. cn.saves[i] = granted \cup Wrote(frames, i)  BY <1>3, <2>1 DEF TxInv, Nests
  <2>3. \A j \in 1 .. i : fr[j].wrote = frames[j].wrote  BY <1>1, <2>1
  <2>4. QED BY <2>1, <2>2, <2>3, SameWrote
<1>5. \A i \in 1 .. Len(fr) : (fr[i].nested = TRUE) <=> (i > 1)  BY <1>1 DEF TxInv, Nests
<1>6. Len(fr) > 0 /\ Len(cn.saves) = Len(fr) - 1  BY <1>1, <1>3
<1>7. QED BY <1>1, <1>4, <1>5, <1>6 DEF Nests

LEMMA TxThrows == TxInv /\ ThrowsTx => TxInv'
<1> SUFFICES ASSUME TxInv, ThrowsTx PROVE TxInv'  OBVIOUS
<1>1. frames \in Seq(FrameRow) /\ conn \in ConnRow /\ granted \in SUBSET Values /\ Len(frames) \in Nat
  BY DEF TxInv, Nests
<1>2. Len(frames) > 0  BY DEF ThrowsTx, InTx
<1>3. frames' = Front(frames) /\ granted' = granted /\ disk' = disk
  BY DEF ThrowsTx, Unwinds
<1>4. CASE Len(frames) = 1
  <2>0. ~(Len(frames) > 1)  BY <1>4
  <2>1. Deepest.nested # TRUE  BY <1>2, <2>0, TxOuter
  <2>2. conn' = Closed(granted)
    BY <1>2, <2>1, TxOuter DEF ThrowsTx, Unwinds, FrameRow, TxInv
  <2>3. Front(frames) = <<>>  BY <1>2, <1>4, TxOuter, NoneLeft
  <2>4. QED BY <1>1, <1>3, <2>2, <2>3, ClosedNests DEF TxInv
<1>5. CASE Len(frames) > 1
  <2> DEFINE cn == [conn EXCEPT !.work = Last(conn.saves), !.saves = Front(@)]
  <2>1. Deepest.nested = TRUE  BY <1>2, <1>5, TxOuter
  <2>2. conn' = cn  BY <2>1 DEF ThrowsTx, Unwinds
  <2>3. conn.saves \in Seq(SUBSET Values) /\ Len(conn.saves) = Len(frames) - 1 /\ Len(conn.saves) > 0
    BY <1>1, <1>5 DEF TxInv, Nests, ConnRow
  <2>4. Len(conn.saves) \in 1 .. Len(conn.saves)  BY <2>3
  <2>5. Last(conn.saves) \in SUBSET Values  BY <2>3, <2>4 DEF Last
  <2>6. Front(conn.saves) \in Seq(SUBSET Values)  BY <2>3, FrontIs
  <2>7. conn.open = TRUE  BY <1>2 DEF TxInv, Nests
  <2>8. cn \in ConnRow /\ cn.open = TRUE /\ cn.work = Last(conn.saves) /\ cn.saves = Front(conn.saves)
    BY <1>1, <2>5, <2>6, <2>7 DEF ConnRow
  <2> HIDE DEF cn
  <2>9. Last(conn.saves) = granted \cup Wrote(frames, Len(frames) - 1)
    BY <2>3, <2>4 DEF Last, TxInv, Nests
  <2>10. Len(frames) - 1 \in 0 .. Len(frames) - 1  BY <1>1, <1>5
  <2> DEFINE fr == Front(frames)
  <2>11. /\ fr \in Seq(FrameRow) /\ Len(fr) = Len(frames) - 1
         /\ \A i \in 1 .. Len(frames) - 1 : fr[i] = frames[i]
         /\ Wrote(fr, Len(frames) - 1) = Wrote(frames, Len(frames) - 1)
    BY <1>2, <2>10, TxOuter
  <2> HIDE DEF fr
  <2>12. /\ \A i \in 1 .. Len(fr) : fr[i].nested = frames[i].nested
         /\ \A i \in 1 .. Len(fr) - 1 : fr[i].wrote = frames[i].wrote
    BY <1>1, <2>11
  <2>13. Last(conn.saves) = granted \cup Wrote(fr, Len(fr))  BY <2>9, <2>11
  <2>14. Nests(fr, cn, granted)
    BY <1>5, <2>5, <2>8, <2>11, <2>12, <2>13, TxPops
  <2>15. QED BY <1>3, <2>2, <2>14 DEF TxInv, fr
<1>6. Len(frames) = 1 \/ Len(frames) > 1  BY <1>1, <1>2, OneOrMore
<1>7. QED BY <1>4, <1>5, <1>6

LEMMA TxReturns == TxInv /\ ReturnsTx => TxInv'
<1> SUFFICES ASSUME TxInv, ReturnsTx PROVE TxInv'  OBVIOUS
<1>1. frames \in Seq(FrameRow) /\ conn \in ConnRow /\ granted \in SUBSET Values /\ Len(frames) \in Nat
  BY DEF TxInv, Nests
<1>2. Len(frames) > 0  BY DEF ReturnsTx, InTx
<1>3. Deepest.wrote \in SUBSET Values  BY <1>2, TxOuter DEF FrameRow
<1>4. CASE Len(frames) = 1
  <2>1. ~(Len(frames) > 1)  BY <1>4
  <2>2. Deepest.nested # TRUE /\ Deepest.nested \in BOOLEAN  BY <1>2, <2>1, TxOuter DEF FrameRow
  <2>3. Front(frames) = <<>>  BY <1>2, <1>4, TxOuter, NoneLeft
  <2>4. conn' = Closed(conn.work) /\ disk' = conn.work  BY <2>2 DEF ReturnsTx, Releases
  <2>5. frames' = <<>> /\ granted' = granted \cup Deepest.wrote  BY <2>3 DEF ReturnsTx
  <2>6. Wrote(frames, 0) = {}  BY DEF Wrote
  <2>7. Wrote(frames, 1) = Deepest.wrote
    <3>1. Wrote(frames, Len(frames)) = Wrote(frames, Len(frames) - 1) \cup Deepest.wrote
      BY <1>2, TxOuter
    <3>2. Len(frames) - 1 = 0  BY <1>4
    <3>3. QED BY <3>1, <3>2, <1>4, <2>6
  <2>8. conn.work = granted \cup Deepest.wrote  BY <1>4, <2>7 DEF TxInv, Nests
  <2>9. QED BY <1>1, <1>3, <2>4, <2>5, <2>8, ClosedNests DEF TxInv
<1>5. CASE Len(frames) > 1
  <2> DEFINE cn == [conn EXCEPT !.saves = Front(@)]
             outer == Front(frames)
             fr == Adds(outer, Deepest.wrote)
  <2>1. Deepest.nested = TRUE  BY <1>2, <1>5, TxOuter
  <2>2. /\ outer \in Seq(FrameRow) /\ Len(outer) = Len(frames) - 1 /\ Len(outer) > 0
        /\ \A i \in 1 .. Len(frames) - 1 : outer[i] = frames[i]
        /\ \A n \in 0 .. Len(frames) - 1 : Wrote(outer, n) = Wrote(frames, n)
        /\ Wrote(frames, Len(frames)) = Wrote(frames, Len(frames) - 1) \cup Deepest.wrote
    BY <1>1, <1>2, <1>5, TxOuter
  <2>3. conn' = cn /\ disk' = disk  BY <2>1 DEF ReturnsTx, Releases
  <2>4. frames' = fr /\ granted' = granted
    <3>1. outer # <<>>  BY <2>2
    <3>2. QED BY <3>1 DEF ReturnsTx, Adds
  <2> HIDE DEF outer
  <2>5. /\ fr \in Seq(FrameRow) /\ Len(fr) = Len(outer)
        /\ \A i \in 1 .. Len(outer) : fr[i].nested = outer[i].nested
        /\ \A i \in 1 .. Len(outer) - 1 : fr[i].wrote = outer[i].wrote
        /\ fr[Len(outer)].wrote = outer[Len(outer)].wrote \cup Deepest.wrote
    BY <1>3, <2>2, AddsIs
  <2> HIDE DEF fr
  <2>6. Wrote(fr, Len(fr)) = Wrote(frames, Len(frames))
    <3>1. Len(outer) \in Nat \ {0} /\ Len(outer) - 1 \in Nat  BY <1>1, <2>2
    <3>2. Wrote(fr, Len(outer)) = Wrote(fr, Len(outer) - 1) \cup fr[Len(outer)].wrote
      BY <3>1, WroteOne
    <3>3. Wrote(outer, Len(outer)) = Wrote(outer, Len(outer) - 1) \cup outer[Len(outer)].wrote
      BY <3>1, WroteOne
    <3>4. Wrote(fr, Len(outer) - 1) = Wrote(outer, Len(outer) - 1)  BY <3>1, <2>5, SameWrote
    <3>5. Wrote(outer, Len(outer)) = Wrote(frames, Len(frames) - 1)
      <4>1. Len(outer) \in 0 .. Len(frames) - 1  BY <1>1, <2>2
      <4>2. QED BY <4>1, <2>2
    <3>6. QED BY <3>2, <3>3, <3>4, <3>5, <2>2, <2>5
  <2>7. conn.saves \in Seq(SUBSET Values) /\ Len(conn.saves) > 0 /\ conn.work \in SUBSET Values
    BY <1>1, <1>5 DEF TxInv, Nests, ConnRow
  <2>8. Front(conn.saves) \in Seq(SUBSET Values)  BY <2>7, FrontIs
  <2>9. conn.open = TRUE  BY <1>2 DEF TxInv, Nests
  <2>10. cn \in ConnRow /\ cn.open = TRUE /\ cn.work = conn.work /\ cn.saves = Front(conn.saves)
    BY <1>1, <2>8, <2>9 DEF ConnRow
  <2> HIDE DEF cn
  <2>11. /\ \A i \in 1 .. Len(fr) : fr[i].nested = frames[i].nested
         /\ \A i \in 1 .. Len(fr) - 1 : fr[i].wrote = frames[i].wrote
    <3>1. Len(fr) = Len(frames) - 1 /\ \A i \in 1 .. Len(fr) : outer[i] = frames[i]  BY <2>2, <2>5
    <3>2. \A i \in 1 .. Len(fr) - 1 : i \in 1 .. Len(fr)  BY <1>1, <3>1
    <3>3. \A i \in 1 .. Len(fr) : fr[i].nested = frames[i].nested  BY <3>1, <2>5
    <3>4. \A i \in 1 .. Len(fr) - 1 : fr[i].wrote = frames[i].wrote  BY <3>1, <3>2, <2>5
    <3>5. QED BY <3>3, <3>4
  <2>12. conn.work = granted \cup Wrote(fr, Len(fr))  BY <2>6 DEF TxInv, Nests
  <2>13. Nests(fr, cn, granted)
    BY <1>5, <2>2, <2>5, <2>7, <2>10, <2>11, <2>12, TxPops
  <2>14. QED BY <2>3, <2>4, <2>13 DEF TxInv
<1>6. Len(frames) = 1 \/ Len(frames) > 1  BY <1>1, <1>2, OneOrMore
<1>7. QED BY <1>4, <1>5, <1>6

(* However calls of tx() nest, return, throw and are caught, what another    *)
(* connection reads is what the calls that returned wrote, and no            *)
(* transaction outlives its call (db.mjs:161-222).                           *)
THEOREM CallsUnwind == ServerSpec => []TransactionsUnwind
<1>1. ServerInit => TxInv  BY TxStart DEF ServerInit
<1>2. TxInv /\ [ServerNext]_serverVars => TxInv'
  <2> SUFFICES ASSUME TxInv, [ServerNext]_serverVars PROVE TxInv'  OBVIOUS
  <2>1. CASE UNCHANGED txVars  BY <2>1 DEF txVars, TxInv, Nests, Wrote, FrameRow, ConnRow
  <2>2. CASE TxNext  BY <2>2, TxEnters, TxReturns, TxThrows, TxLoses, TxWrites DEF TxNext
  <2>3. CASE SchemaNext
    <3>1. UNCHANGED txVars
      BY <2>3 DEF SchemaNext, ReadApplied, BeginFile, FindsFileDone, AppliesFile, BootFails, Boots, Restarts
    <3>2. QED BY <3>1, <2>1
  <2>4. QED
    BY <2>1, <2>2, <2>3 DEF ServerNext, serverVars, storeVars, Requests, KeepsRows, Deploys,
       KeepsPhotos, KeepsPeople, KeepsLink, Works
<1>3. TxInv => TransactionsUnwind
  <2> SUFFICES ASSUME TxInv PROVE TransactionsUnwind  OBVIOUS
  <2>1. frames \in Seq(FrameRow) /\ conn \in ConnRow /\ Len(frames) \in Nat  BY DEF TxInv, Nests
  <2>2. conn.saves \in Seq(SUBSET Values) /\ conn.open \in BOOLEAN  BY <2>1 DEF ConnRow
  <2>3. frames = <<>> => ~conn.open /\ conn.saves = <<>>
    <3> SUFFICES ASSUME frames = <<>> PROVE ~conn.open /\ conn.saves = <<>>  OBVIOUS
    <3>1. Len(frames) = 0  BY <2>1, NoneLeft
    <3>2. ~(Len(frames) > 0) /\ Len(conn.saves) = 0  BY <3>1 DEF TxInv, Nests
    <3>3. conn.saves = <<>>  BY <2>2, <3>2, NoneLeft
    <3>4. conn.open # TRUE  BY <3>2 DEF TxInv, Nests
    <3>5. QED BY <2>2, <3>3, <3>4
  <2>4. DOMAIN frames = 1 .. Len(frames)  BY <2>1
  <2>5. conn.work = granted \cup UNION {frames[i].wrote : i \in DOMAIN frames}
    BY <2>4 DEF TxInv, Nests, Wrote
  <2>6. QED BY <2>3, <2>5 DEF TxInv, TransactionsUnwind
<1>4. QED BY <1>1, <1>2, <1>3, PTL DEF ServerSpec

\* ---- participants
(* The alert of an identity names every two who can win with it, in one row: *)
(* a repeat rewrites that row with all of them.                              *)
IsPerson(r) ==
  r \in [status : {r.status}, number : {r.number}, identity : {r.identity}, enrolled : {r.enrolled}]
AlertRow == [key : Identities, names : SUBSET Persons, open : BOOLEAN]
Shares(p, q) ==
  /\ p # q /\ Active(p) /\ Active(q)
  /\ person[p].identity = person[q].identity /\ person[p].identity # None
NamedIn(rows, i, p, q) == \E k \in DOMAIN rows : rows[k].key = i /\ {p, q} \subseteq rows[k].names
PeopleInv ==
  /\ person = [p \in Persons |-> person[p]] /\ \A p \in Persons : IsPerson(person[p])
  /\ alerts \in Seq(AlertRow)
  /\ \A p, q \in Persons : Shares(p, q) => NamedIn(alerts, person[p].identity, p, q)

LEMMA PeopleStart == PeopleInit => PeopleInv
<1> SUFFICES ASSUME PeopleInit PROVE PeopleInv  OBVIOUS
<1>1. person = [p \in Persons |-> NoPerson] /\ alerts = <<>>  BY DEF PeopleInit
<1>2. IsPerson(NoPerson) /\ NoPerson.identity = None  BY DEF NoPerson, IsPerson
<1>3. \A p \in Persons : person[p] = NoPerson  BY <1>1
<1>4. alerts \in Seq(AlertRow)  BY <1>1
<1>5. person = [p \in Persons |-> person[p]]  BY <1>1, <1>3
<1>6. QED BY <1>2, <1>3, <1>4, <1>5 DEF PeopleInv, Shares

\* Rows that keep their keys and names keep whom they name.
LEMMA ShutsKeep == ASSUME PeopleInv, NEW rows, Shuts(rows) PROVE PeopleInv'
<1> DEFINE n == Len(alerts)
<1>1. /\ n \in Nat /\ DOMAIN alerts = 1 .. n /\ UNCHANGED person
      /\ \A k \in 1 .. n : alerts[k] \in AlertRow
  BY DEF PeopleInv, Shuts
<1>2. alerts' = [k \in 1 .. n |->
        IF k \in rows THEN [alerts[k] EXCEPT !.open = FALSE] ELSE alerts[k]]
  BY <1>1 DEF Shuts
<1> HIDE DEF n
<1>3. ASSUME NEW r \in AlertRow
      PROVE  LET s == [r EXCEPT !.open = FALSE]
             IN  s \in AlertRow /\ s.key = r.key /\ s.names = r.names
  BY DEF AlertRow
<1>4. ASSUME NEW k \in 1 .. n
      PROVE  alerts'[k] \in AlertRow /\ alerts'[k].key = alerts[k].key /\ alerts'[k].names = alerts[k].names
  BY <1>1, <1>2, <1>3
<1>5. alerts' \in Seq(AlertRow)
  <2>1. alerts' \in [1 .. n -> AlertRow]  BY <1>2, <1>4
  <2>2. QED BY <1>1, <2>1, IsASeq
<1>6. DOMAIN alerts' = 1 .. n  BY <1>2
<1>7. ASSUME NEW i, NEW p, NEW q, NamedIn(alerts, i, p, q) PROVE NamedIn(alerts', i, p, q)
  BY <1>1, <1>4, <1>6, <1>7 DEF NamedIn
<1>8. ASSUME NEW p \in Persons, NEW q \in Persons, Shares(p, q)' PROVE NamedIn(alerts', person'[p].identity, p, q)
  BY <1>1, <1>7, <1>8 DEF PeopleInv, Shares, Active
<1>9. QED BY <1>1, <1>5, <1>8 DEF PeopleInv

\* A row changes without becoming one more that can win with an identity.
LEMMA ChangesKeep ==
  ASSUME PeopleInv, NEW p \in Persons, NEW row, Changes(p, row), IsPerson(row),
         \/ row.status # "active"
         \/ row.status = person[p].status /\ row.identity = person[p].identity
  PROVE  PeopleInv'
<1>1. /\ person' = [q \in Persons |-> person'[q]] /\ UNCHANGED alerts
      /\ \A q \in Persons : person'[q] = IF q = p THEN row ELSE person[q]
  BY DEF Changes, PeopleInv
<1>2. ASSUME NEW q \in Persons, Active(q)'
      PROVE  Active(q) /\ person'[q].identity = person[q].identity
  BY <1>1, <1>2 DEF Active
<1>3. ASSUME NEW q \in Persons, NEW r \in Persons, Shares(q, r)'
      PROVE  NamedIn(alerts', person'[q].identity, q, r)
  <2>1. Shares(q, r) /\ person'[q].identity = person[q].identity  BY <1>2, <1>3 DEF Shares
  <2>2. QED BY <1>1, <2>1 DEF PeopleInv
<1>4. QED BY <1>1, <1>3 DEF PeopleInv

\* alert(): whom the rows named they name still, but for the row of the key, which names
\* those of the call.
LEMMA AlertsNames ==
  ASSUME alerts \in Seq(AlertRow), NEW i \in Identities, NEW names \in SUBSET Persons, Alerts(i, names)
  PROVE  /\ alerts' \in Seq(AlertRow)
         /\ \A p, q \in names : NamedIn(alerts', i, p, q)
         /\ \A j, p, q : j # i /\ NamedIn(alerts, j, p, q) => NamedIn(alerts', j, p, q)
<1>1. Len(alerts) \in Nat /\ DOMAIN alerts = 1 .. Len(alerts)
      /\ \A k \in DOMAIN alerts : alerts[k] \in AlertRow
  OBVIOUS
<1>2. ASSUME NEW k \in Open(i), alerts' = [alerts EXCEPT ![k].names = names]
      PROVE  /\ alerts' \in Seq(AlertRow)
             /\ \A p, q \in names : NamedIn(alerts', i, p, q)
             /\ \A j, p, q : j # i /\ NamedIn(alerts, j, p, q) => NamedIn(alerts', j, p, q)
  <2> DEFINE old == alerts[k]
             new == [old EXCEPT !.names = names]
  <2>1. k \in DOMAIN alerts /\ old.key = i /\ old \in AlertRow  BY <1>1 DEF Open
  <2>2. new \in AlertRow /\ new.key = i /\ new.names = names
    <3> HIDE DEF old
    <3>1. QED BY <2>1 DEF AlertRow
  <2>3. alerts' = [alerts EXCEPT ![k] = new]  BY <1>2
  <2> HIDE DEF new
  <2>4. alerts' \in Seq(AlertRow)  BY <2>1, <2>2, <2>3, ExceptSeq
  <2>5. DOMAIN alerts' = DOMAIN alerts /\ alerts'[k] = new
        /\ \A l \in DOMAIN alerts : l # k => alerts'[l] = alerts[l]
    BY <2>1, <2>3
  <2>6. QED BY <2>1, <2>2, <2>4, <2>5 DEF NamedIn
<1>3. CASE alerts' = Append(alerts, Row(i, names))
  <2> DEFINE new == Row(i, names)
  <2>1. new \in AlertRow /\ new.key = i /\ new.names = names  BY DEF Row, AlertRow
  <2> HIDE DEF new
  <2>2. /\ alerts' \in Seq(AlertRow) /\ Len(alerts') = Len(alerts) + 1
        /\ alerts'[Len(alerts) + 1] = new
        /\ \A l \in 1 .. Len(alerts) : alerts'[l] = alerts[l]
    BY <1>3, <2>1, AppendProperties DEF new
  <2>3. DOMAIN alerts' = 1 .. Len(alerts) + 1  BY <2>2
  <2>4. Len(alerts) + 1 \in DOMAIN alerts' /\ \A l \in DOMAIN alerts : l \in DOMAIN alerts' /\ alerts'[l] = alerts[l]
    BY <1>1, <2>2, <2>3
  <2>5. QED BY <2>1, <2>2, <2>4 DEF NamedIn
<1>4. QED BY <1>2, <1>3 DEF Alerts

LEMMA RegistersKeeps ==
  ASSUME PeopleInv, NEW p \in Persons, NEW n, NEW i \in Identities \cup {None}, Registers(p, n, i)
  PROVE  PeopleInv'
<1> DEFINE row == Registered(p, n, i)
           j == IF i = None THEN person[p].identity ELSE i
<1>1. IsPerson(row) /\ row.status = "active" /\ row.identity = j  BY DEF Registered, IsPerson
<1>2. person' = [person EXCEPT ![p] = row]  BY DEF Registers
<1> HIDE DEF row
<1>3. /\ person' = [q \in Persons |-> person'[q]]
      /\ \A q \in Persons : person'[q] = IF q = p THEN row ELSE person[q]
  BY <1>2 DEF PeopleInv
<1>4. \A q \in Persons : IsPerson(person'[q])  BY <1>1, <1>3 DEF PeopleInv
<1>5. Active(p)' /\ person'[p].identity = j
      /\ \A q \in Persons \ {p} : (Active(q)' <=> Active(q)) /\ person'[q].identity = person[q].identity
  BY <1>1, <1>3 DEF Active
<1>6. ASSUME NEW q \in Persons, NEW r \in Persons, Shares(q, r)'
      PROVE  \/ q # p /\ r # p /\ Shares(q, r)
             \/ q = p /\ r # p /\ Active(r) /\ person[r].identity = j /\ j # None
             \/ r = p /\ q # p /\ Active(q) /\ person[q].identity = j /\ j # None
  BY <1>5, <1>6 DEF Shares
<1>7. CASE i # None /\ Sharing(p, i) # {}
  <2> DEFINE names == {p} \cup Sharing(p, i)
  <2>1. i \in Identities /\ names \in SUBSET Persons /\ Alerts(i, names) /\ j = i
    BY <1>7 DEF Registers, Sharing
  <2>2. \A q \in Persons : q # p /\ Active(q) /\ person[q].identity = i => q \in names
    BY DEF Sharing
  <2>3. p \in names  OBVIOUS
  <2> HIDE DEF names, j
  <2>4. /\ alerts' \in Seq(AlertRow)
        /\ \A q, r \in names : NamedIn(alerts', i, q, r)
        /\ \A x, q, r : x # i /\ NamedIn(alerts, x, q, r) => NamedIn(alerts', x, q, r)
    BY <2>1, AlertsNames DEF PeopleInv
  <2>5. ASSUME NEW q \in Persons, NEW r \in Persons, Shares(q, r)'
        PROVE  NamedIn(alerts', person'[q].identity, q, r)
    <3>1. CASE q # p /\ r # p /\ Shares(q, r) /\ person[q].identity # i
      BY <1>5, <2>4, <3>1 DEF PeopleInv
    <3>2. CASE q # p /\ r # p /\ Shares(q, r) /\ person[q].identity = i
      <4>1. q \in names /\ r \in names  BY <2>2, <3>2 DEF Shares
      <4>2. QED BY <1>5, <2>4, <3>2, <4>1
    <3>3. CASE (q = p \/ r = p) /\ ~(q # p /\ r # p)
      <4>1. q \in names /\ r \in names /\ person'[q].identity = i  BY <1>5, <1>6, <2>1, <2>2, <2>3, <2>5, <3>3
      <4>2. QED BY <2>4, <4>1
    <3>4. QED BY <1>6, <2>5, <3>1, <3>2, <3>3
  <2>6. QED BY <1>3, <1>4, <2>4, <2>5 DEF PeopleInv
<1>8. CASE ~(i # None /\ Sharing(p, i) # {})
  <2>1. UNCHANGED alerts  BY <1>8 DEF Registers
  <2>2. ASSUME NEW q \in Persons, q # p, Active(q), person[q].identity = j, j # None
        PROVE  NamedIn(alerts, j, p, q) /\ NamedIn(alerts, j, q, p)
    <3>1. i = None
      <4>1. i # None => q \in Sharing(p, i)  BY <2>2 DEF Sharing
      <4>2. QED BY <1>8, <4>1
    <3>2. j = person[p].identity  BY <3>1
    <3>3. Active(p)
      <4>1. person[p] # NoPerson  BY <2>2, <3>2 DEF NoPerson
      <4>2. QED BY <4>1 DEF Registers, IsNext
    <3>4. Shares(p, q) /\ Shares(q, p)  BY <2>2, <3>2, <3>3 DEF Shares
    <3>5. QED BY <2>2, <3>2, <3>4 DEF PeopleInv
  <2> HIDE DEF j
  <2>3. ASSUME NEW q \in Persons, NEW r \in Persons, Shares(q, r)'
        PROVE  NamedIn(alerts', person'[q].identity, q, r)
    <3>1. CASE q # p /\ r # p /\ Shares(q, r)  BY <1>5, <2>1, <3>1 DEF PeopleInv
    <3>2. CASE ~(q # p /\ r # p /\ Shares(q, r))  BY <1>5, <1>6, <2>1, <2>2, <2>3, <3>2
    <3>3. QED BY <3>1, <3>2
  <2>4. QED BY <1>3, <1>4, <2>1, <2>3 DEF PeopleInv
<1>9. QED BY <1>7, <1>8

LEMMA PeopleStep == PeopleInv /\ PeopleNext => PeopleInv'
<1> SUFFICES ASSUME PeopleInv, PeopleNext PROVE PeopleInv'  OBVIOUS
<1>1. ASSUME HourPasses \/ \E k \in DOMAIN alerts : Acknowledges(k) PROVE PeopleInv'
  BY <1>1, ShutsKeep DEF HourPasses, Acknowledges
<1>2. ASSUME NEW p \in Persons, Withdraws(p) PROVE PeopleInv'
  <2> DEFINE old == person[p]
             row == [old EXCEPT !.status = "withdrawn", !.enrolled = "withdrawn"]
  <2>1. IsPerson(old) /\ Changes(p, row)  BY <1>2 DEF PeopleInv, Withdraws
  <2> HIDE DEF old
  <2>2. IsPerson(row) /\ row.status # "active"  BY <2>1 DEF IsPerson
  <2> HIDE DEF row
  <2>3. QED BY <2>1, <2>2, ChangesKeep
<1>3. ASSUME NEW p \in Persons, Erases(p) PROVE PeopleInv'
  <2> DEFINE row == [status |-> "deleted", number |-> "deleted", identity |-> None, enrolled |-> "withdrawn"]
  <2>1. IsPerson(row) /\ row.status # "active" /\ Changes(p, row)  BY <1>3 DEF Erases, IsPerson
  <2> HIDE DEF row
  <2>2. QED BY <2>1, ChangesKeep
<1>4. ASSUME NEW p \in Persons, NEW n, ChangesNumber(p, n) PROVE PeopleInv'
  <2> DEFINE old == person[p]
             row == [old EXCEPT !.number = n]
  <2>1. IsPerson(old) /\ Changes(p, row)  BY <1>4 DEF PeopleInv, ChangesNumber
  <2> HIDE DEF old
  <2>2. IsPerson(row) /\ row.status = old.status /\ row.identity = old.identity  BY <2>1 DEF IsPerson
  <2> HIDE DEF row
  <2>3. QED BY <2>1, <2>2, ChangesKeep DEF old
<1>5. QED BY <1>1, <1>2, <1>3, <1>4, RegistersKeeps DEF PeopleNext

(* Two participants who can both win with one identity number are named      *)
(* together by one of its alerts, however many register, leave, return and   *)
(* change numbers, and whenever alerts are acknowledged (services.mjs).      *)
THEOREM ReuseIsNamed == ServerSpec => []ReuseIsFlagged
<1>1. ServerInit => PeopleInv  BY PeopleStart DEF ServerInit
<1>2. PeopleInv /\ [ServerNext]_serverVars => PeopleInv'
  <2> SUFFICES ASSUME PeopleInv, [ServerNext]_serverVars PROVE PeopleInv'  OBVIOUS
  <2>1. CASE UNCHANGED peopleVars  BY <2>1 DEF peopleVars, PeopleInv, Shares, Active
  <2>2. CASE PeopleNext  BY <2>2, PeopleStep
  <2>3. QED
    BY <2>1, <2>2 DEF ServerNext, serverVars, Requests, KeepsRows, Deploys, KeepsPhotos,
       KeepsPeople, KeepsLink, Works
<1>3. PeopleInv => ReuseIsFlagged
  BY DEF PeopleInv, ReuseIsFlagged, Shares, NamedIn
<1>4. QED BY <1>1, <1>2, <1>3, PTL DEF ServerSpec
============================================================================
