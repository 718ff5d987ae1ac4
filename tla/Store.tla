------------------------------- MODULE Store -------------------------------
(* src/db.mjs: how processes that start together bring the schema up to date *)
(* and how the application's one connection nests its transactions.          *)
EXTENDS Naturals, Sequences, FiniteSets, SequencesExt

CONSTANTS
  Booters,        \* processes that run migrate(): the server, the worker, an operator
  Files,          \* how many ordered migration files there are
  Values,         \* rows the application writes
  MaxDepth        \* bound: transactions inside one another

ASSUME StoreAssumption == Files \in Nat /\ MaxDepth \in Nat

VARIABLES
  schema,   \* the migrated database: [done: how often each file ran, ledger, version, lock]
  booter,   \* each migrator: [at, applied, file]
  conn,     \* the connection: [open, work, saves], saves the stack of savepoints
  frames,   \* the calls of tx() under way: [nested, wrote]
  disk,     \* the rows another connection sees
  granted   \* the rows of every call that returned

schemaVars == <<schema, booter>>
txVars == <<conn, frames, disk, granted>>
storeVars == <<schemaVars, txVars>>

NoOne == "nobody"
Closed(rows) == [open |-> FALSE, work |-> rows, saves |-> <<>>]
Down == [at |-> "down", applied |-> {}, file |-> 0]

StoreInit ==
  /\ schema = [done |-> [f \in 1 .. Files |-> 0], ledger |-> {}, version |-> 0, lock |-> NoOne]
  /\ booter = [b \in Booters |-> Down]
  /\ conn = Closed({}) /\ frames = <<>> /\ disk = {} /\ granted = {}

\* ---- migrate()
NextFile(applied) == {f \in 1 .. Files : f \notin applied /\ \A g \in 1 .. f - 1 : g \in applied}
Newest(applied) == IF applied = {} THEN 0 ELSE CHOOSE f \in applied : \A g \in applied : g <= f

(* The ledger is read for the first time, under no lock.                     *)
ReadApplied(b) ==
  /\ booter[b].at = "down"
  /\ booter' = [booter EXCEPT ![b] = [at |-> "pending", applied |-> schema.ledger, file |-> 0]]
  /\ UNCHANGED <<schema, txVars>>

(* begin immediate: waits while another migrator writes.                     *)
BeginFile(b, f) ==
  /\ booter[b].at = "pending" /\ f \in NextFile(booter[b].applied)
  /\ schema.lock = NoOne
  /\ schema' = [schema EXCEPT !.lock = b]
  /\ booter' = [booter EXCEPT ![b].at = "locked", ![b].file = f]
  /\ UNCHANGED txVars

\* What the loop takes as applied once it holds the lock, as it should not
\* be and as it is.
RereadBefore(b) == booter[b].applied
Reread(b) == schema.ledger

(* The other migrator won the race: nothing to do but to let go.             *)
FindsFileDone(b) ==
  /\ booter[b].at = "locked" /\ booter[b].file \in Reread(b)
  /\ schema' = [schema EXCEPT !.lock = NoOne]
  /\ booter' = [booter EXCEPT ![b].at = "pending", ![b].applied = Reread(b)]
  /\ UNCHANGED txVars

(* The file's statements, the ledger and the commit: all or nothing.         *)
AppliesFile(b) ==
  /\ booter[b].at = "locked" /\ booter[b].file \notin Reread(b)
  /\ LET f == booter[b].file
         now == Reread(b) \cup {f}
     IN /\ schema' = [schema EXCEPT !.done[f] = @ + 1, !.ledger = now, !.lock = NoOne]
        /\ booter' = [booter EXCEPT ![b].at = "pending", ![b].applied = now]
  /\ UNCHANGED txVars

(* A statement that fails, a lock that stays taken for five seconds, a kill: *)
(* rolled back, and the process starts again.                                *)
BootFails(b) ==
  /\ booter[b].at \in {"pending", "locked"}
  /\ booter' = [booter EXCEPT ![b] = Down]
  /\ schema' = [schema EXCEPT !.lock = IF @ = b THEN NoOne ELSE @]
  /\ UNCHANGED txVars

(* schema_version follows from what this migrator believes applied.          *)
Boots(b) ==
  /\ booter[b].at = "pending" /\ NextFile(booter[b].applied) = {}
  /\ schema.lock = NoOne
  /\ schema' = [schema EXCEPT !.version = Newest(booter[b].applied)]
  /\ booter' = [booter EXCEPT ![b].at = "up"]
  /\ UNCHANGED txVars

Restarts(b) ==
  /\ booter[b].at = "up"
  /\ booter' = [booter EXCEPT ![b] = Down]
  /\ UNCHANGED <<schema, txVars>>

\* ---- tx()
Deepest == frames[Len(frames)]
InTx == Len(frames) > 0

(* begin immediate at the outermost level, a savepoint of its own inside.    *)
EntersTx ==
  /\ Len(frames) < MaxDepth
  /\ frames' = Append(frames, [nested |-> conn.open, wrote |-> {}])
  /\ conn' = IF conn.open THEN [conn EXCEPT !.saves = Append(@, conn.work)]
             ELSE [open |-> TRUE, work |-> disk, saves |-> <<>>]
  /\ UNCHANGED <<disk, granted, schemaVars>>

(* A statement: part of the open transaction, or committed by itself.        *)
Writes(v) ==
  /\ v \notin conn.work
  /\ conn' = [conn EXCEPT !.work = @ \cup {v}]
  /\ IF frames = <<>>
     THEN /\ granted' = granted \cup {v} /\ frames' = frames
     ELSE /\ frames' = [frames EXCEPT ![Len(frames)].wrote = @ \cup {v}] /\ granted' = granted
  /\ disk' = IF conn.open THEN disk ELSE conn'.work
  /\ UNCHANGED schemaVars

\* The two ways a call leaves the connection.
Releases(nested) ==
  IF nested THEN conn' = [conn EXCEPT !.saves = Front(@)] /\ disk' = disk
  ELSE conn' = Closed(conn.work) /\ disk' = conn.work
\* What the first version of tx() did: the outermost savepoint is rolled back
\* to and never popped.
UnwindsOpen(nested) ==
  /\ conn' = IF nested THEN [conn EXCEPT !.work = Last(conn.saves)] ELSE [conn EXCEPT !.work = disk]
  /\ disk' = disk
Unwinds(nested) ==
  /\ conn' = IF nested THEN [conn EXCEPT !.work = Last(conn.saves), !.saves = Front(@)] ELSE Closed(disk)
  /\ disk' = disk

(* fn() returned: what it wrote is its caller's, or the database's.          *)
ReturnsTx ==
  /\ InTx
  /\ Releases(Deepest.nested)
  /\ LET outer == Front(frames)
     IN IF outer = <<>>
        THEN frames' = outer /\ granted' = granted \cup Deepest.wrote
        ELSE /\ frames' = [outer EXCEPT ![Len(outer)].wrote = @ \cup Deepest.wrote]
             /\ granted' = granted
  /\ UNCHANGED schemaVars

(* fn() threw, or the release or the commit did; the caller may catch it.    *)
ThrowsTx ==
  /\ InTx
  /\ Unwinds(Deepest.nested)
  /\ frames' = Front(frames)
  /\ UNCHANGED <<granted, schemaVars>>

(* The process dies, or SQLite itself gives the transaction up (a full disk) *)
(* and every call under way fails with it: the unwinding error is kept aside.*)
LosesConnection ==
  /\ InTx
  /\ conn' = Closed(disk) /\ frames' = <<>>
  /\ UNCHANGED <<disk, granted, schemaVars>>

SchemaNext ==
  \E b \in Booters :
    \/ ReadApplied(b) \/ FindsFileDone(b) \/ AppliesFile(b) \/ BootFails(b) \/ Boots(b) \/ Restarts(b)
    \/ \E f \in 1 .. Files : BeginFile(b, f)

TxNext ==
  \/ EntersTx \/ ReturnsTx \/ ThrowsTx \/ LosesConnection
  \/ \E v \in Values : Writes(v)

\* ---- properties
(* However many processes start at once, fail and start again, a migration   *)
(* runs exactly as often as the ledger says, once, and a process that is up  *)
(* runs on the whole schema (the comment at db.mjs:96-103).                  *)
MigrationsRunOnce ==
  /\ \A f \in 1 .. Files : schema.done[f] = IF f \in schema.ledger THEN 1 ELSE 0
  /\ \A b \in Booters : booter[b].at = "up" => schema.ledger = 1 .. Files /\ schema.version = Files

(* Between calls no transaction is open, and another connection sees the     *)
(* rows of exactly the calls that returned; inside, the rows of the calls    *)
(* under way besides (the comment at db.mjs:161-184).                        *)
TransactionsUnwind ==
  /\ frames = <<>> => ~conn.open /\ conn.saves = <<>>
  /\ disk = granted
  /\ conn.work = granted \cup UNION {frames[i].wrote : i \in DOMAIN frames}
============================================================================
