------------------------------- MODULE Worker ------------------------------
(* The loop of src/worker.mjs: one tick at a time goes through the queues,   *)
(* an interval starts the next, and a shutdown waits for the one under way.  *)
EXTENDS Naturals, Sequences

CONSTANT MaxRounds   \* bound: ticks of one process

ASSUME WorkerAssumption == MaxRounds \in Nat

VARIABLES
  loop,     \* the process: [timer, inflight, exit]
  tick,     \* the tick that runs: the queue it is at, "idle" without one
  late,     \* the running tick is past stallMs; the interval of housekeeping is over
  planned,  \* jobs and alerts: the day's retention jobs, the open alerts
  rounds

loopVars == <<loop, tick, late, planned, rounds>>

Queues == <<"inbound", "jobs", "outbox", "crm", "housekeeping">>

Started == [timer |-> TRUE, inflight |-> FALSE, exit |-> "no"]

WorkerInit ==
  /\ loop = Started /\ tick = "idle"
  /\ late = [tick |-> FALSE, housekeeping |-> FALSE]
  /\ planned = {} /\ rounds = 0

Running == tick # "idle"
Gone == loop.exit = "gone"

\* ---- tick()
(* scheduled(): the interval fires while nothing runs.                       *)
Fires ==
  /\ loop.timer /\ ~Gone /\ ~Running /\ rounds < MaxRounds
  /\ tick' = Queues[1] /\ rounds' = rounds + 1
  /\ loop' = [loop EXCEPT !.inflight = TRUE]
  /\ UNCHANGED <<late, planned>>

(* It fires while a tick runs: that call ends at once, and it is the one     *)
(* that scheduled() keeps and then forgets.  A tick that has run for too     *)
(* long is reported from here.                                               *)
FiresAgain ==
  /\ loop.timer /\ ~Gone /\ Running
  /\ loop' = [loop EXCEPT !.inflight = FALSE]
  /\ planned' = IF late.tick THEN planned \cup {"worker.stalled"} ELSE planned
  /\ UNCHANGED <<tick, late, rounds>>

After(q) == Queues[1 + CHOOSE i \in 1 .. Len(Queues) : Queues[i] = q]

(* Each queue in its order, a bounded batch of it; housekeeping once a       *)
(* minute.                                                                   *)
GoesOn ==
  /\ Running /\ ~Gone /\ tick # "housekeeping"
  /\ After(tick) = "housekeeping" => late.housekeeping
  /\ tick' = After(tick)
  /\ UNCHANGED <<loop, late, planned, rounds>>

(* The rows a dead process left and the day's jobs, each inserted only where *)
(* there is none; a pass that throws is reported.                            *)
Keeps(sound) ==
  /\ tick = "housekeeping" /\ late.housekeeping /\ ~Gone
  /\ planned' = planned \cup (IF sound THEN {"winner.expire", "media.purge", "retention.scrub"}
                              ELSE {"worker.housekeeping_failed"})
  /\ late' = [late EXCEPT !.housekeeping = FALSE]
  /\ UNCHANGED <<loop, tick, rounds>>

(* The end of the queues, or of housekeeping, or an error on the way.        *)
TickEnds ==
  /\ Running /\ ~Gone
  /\ tick' = "idle"
  /\ loop' = [loop EXCEPT !.inflight = FALSE]
  /\ late' = [late EXCEPT !.tick = FALSE]
  /\ UNCHANGED <<planned, rounds>>

TimeGoesBy(tickLate) ==
  /\ late' = IF tickLate THEN [late EXCEPT !.tick = Running] ELSE [late EXCEPT !.housekeeping = TRUE]
  /\ late' # late
  /\ UNCHANGED <<loop, tick, planned, rounds>>

\* ---- stop(), and the process around it
(* SIGTERM: no more ticks, and what is in flight is waited for.              *)
StopsWorker ==
  /\ loop.exit = "no" /\ loop.timer
  /\ loop' = [loop EXCEPT !.timer = FALSE, !.exit = IF loop.inflight THEN "waits" ELSE "drained"]
  /\ UNCHANGED <<tick, late, planned, rounds>>
DrainEnds ==
  /\ loop.exit = "waits" /\ ~Running
  /\ loop' = [loop EXCEPT !.exit = "drained"]
  /\ UNCHANGED <<tick, late, planned, rounds>>
GraceEnds ==
  /\ loop.exit = "waits"
  /\ loop' = [loop EXCEPT !.exit = "timeout"]
  /\ UNCHANGED <<tick, late, planned, rounds>>
Exits ==
  /\ loop.exit \in {"drained", "timeout"}
  /\ loop' = [loop EXCEPT !.exit = "gone", !.inflight = FALSE]
  /\ tick' = "idle"
  /\ UNCHANGED <<late, planned, rounds>>

WorkerNext ==
  \/ Fires \/ FiresAgain \/ GoesOn \/ TickEnds \/ StopsWorker \/ DrainEnds \/ GraceEnds \/ Exits
  \/ \E flag \in BOOLEAN : Keeps(flag) \/ TimeGoesBy(flag)

\* ---- properties
(* stop() says that the tick in flight has drained only when no tick runs    *)
(* (the comment at worker.mjs:217-226 and that of server.mjs:381-384).       *)
DrainedMeansIdle == loop.exit = "drained" => ~Running
============================================================================
