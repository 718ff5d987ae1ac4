------------------------------- MODULE Audit -------------------------------
(* The audit chain of src/audit.mjs.  The server and a standalone worker     *)
(* share the table: each reads the head of the chain and appends to it in    *)
(* two statements, and nothing but the UNIQUE index on prev_hash keeps the   *)
(* two from appending to the same head.                                      *)
EXTENDS Naturals, Sequences

CONSTANTS
  Writers,   \* the processes that hold a connection to the database
  Tries,     \* how often record() reads the head again (8 in the code)
  MaxRows    \* bound: rows of the chain in one behaviour

ASSUME AuditAssumption ==
  /\ Tries \in Nat
  /\ MaxRows \in Nat \ {0}

VARIABLES
  chain,     \* audit_events in id order: [prev, hash]
  writer,    \* where each process stands in record()
  kept       \* audit_checkpoints: signed heads, kept outside the database

auditVars == <<chain, writer, kept>>

(* sha256 of the previous hash and a body that carries its own time: a value *)
(* no other row has.  0 is the empty prev_hash of the first row.             *)
Fresh == Len(chain) + 1
LastHash == IF chain = <<>> THEN 0 ELSE chain[Len(chain)].hash

Idle == [at |-> "idle", head |-> 0, left |-> 0]

AuditInit ==
  /\ chain = <<>>
  /\ writer = [w \in Writers |-> Idle]
  /\ kept = {}

(* record(): the head is read ...                                            *)
Reads(w) == [writer EXCEPT ![w] = [at |-> "read", head |-> LastHash, left |-> Tries]]

(* ... and the row appended, unless another row already follows that head.   *)
TakenUnindexed(head) == FALSE
Taken(head) == \E i \in DOMAIN chain : chain[i].prev = head

Follows(head) == ~Taken(head)

Appends(w) ==
  /\ writer[w].at = "read"
  /\ Follows(writer[w].head)
  /\ chain' = Append(chain, [prev |-> writer[w].head, hash |-> Fresh])
  /\ writer' = [writer EXCEPT ![w] = Idle]
  /\ kept' = kept

(* The constraint failure is retried against the new head; after the last    *)
(* try it is thrown to the caller, whose change stands without a row.        *)
LosesRace(w) ==
  /\ writer[w].at = "read"
  /\ ~Follows(writer[w].head)
  /\ writer' = [writer EXCEPT ![w] =
       IF @.left > 0 THEN [at |-> "read", head |-> LastHash, left |-> @.left - 1] ELSE Idle]
  /\ UNCHANGED <<chain, kept>>

(* The worker's own jobs (expiry, sweeps, retention) record as well.         *)
Records(w) ==
  /\ writer[w].at = "idle"
  /\ Len(chain) < MaxRows
  /\ writer' = Reads(w)
  /\ UNCHANGED <<chain, kept>>

(* The process dies between the two statements: the row is never written.    *)
RecordLost(w) ==
  /\ writer' = [writer EXCEPT ![w] = Idle]
  /\ UNCHANGED <<chain, kept>>

(* checkpoint(): the last row as it is now, signed.  Bound: one of them.     *)
Checkpoint ==
  /\ chain # <<>>
  /\ kept = {}
  /\ kept' = {[upto |-> Len(chain), head |-> LastHash]}
  /\ UNCHANGED <<chain, writer>>

(* verify() and verifyCheckpoint(): each row follows the one before it, and  *)
(* a kept head is still the hash of the row it was taken from.               *)
Before(i) == IF i = 1 THEN 0 ELSE chain[i - 1].hash
Linked(i) == chain[i].prev = Before(i)
HeadMatches(c) == c.upto \in DOMAIN chain /\ chain[c.upto].hash = c.head

(* Whatever the server and the worker record at the same time, verify()      *)
(* finds one unbroken chain and every retained checkpoint on it (the claim   *)
(* of the header of audit.mjs and of migration 008).                         *)
AuditChainVerifies ==
  /\ \A i \in DOMAIN chain : Linked(i)
  /\ \A c \in kept : HeadMatches(c)
============================================================================
