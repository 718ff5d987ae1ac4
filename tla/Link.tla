-------------------------------- MODULE Link -------------------------------
(* The linked phone of src/transport/linked-device.mjs: a socket to WhatsApp *)
(* that is opened, dropped, opened again, logged out and unlinked, while     *)
(* messages come in on whatever sockets are alive.                           *)
EXTENDS Naturals, FiniteSets

CONSTANTS
  MaxSockets,   \* bound: sockets made in one behaviour, numbered as they come
  Inbound,      \* messages people send to the number
  MaxWaits      \* bound: connects under way, and reconnects set, at a time

ASSUME LinkAssumption == MaxSockets \in Nat /\ MaxWaits \in Nat

VARIABLES
  socket,    \* each socket of the library: "none", "pairing", "open", "closed"
  link,      \* this.state and this.sock: [ready, stopping, sock, session]
  dialing,   \* connect() calls that wait for the credentials and the version
  timers,    \* reconnects set with setTimeout
  unlinks,   \* unlink() calls that wait for logout()
  lost,      \* a reconnect threw and nothing was set in its place
  inbox      \* each message: "none", "fetching", "received", "lost"

linkVars == <<socket, link, dialing, timers, unlinks, lost, inbox>>

Sockets == 1 .. MaxSockets
NoSocket == 0
Live(s) == socket[s] \in {"pairing", "open"}

LinkInit ==
  /\ socket = [s \in Sockets |-> "none"]
  /\ link = [ready |-> FALSE, stopping |-> FALSE, sock |-> NoSocket, session |-> FALSE]
  /\ dialing = 1 /\ timers = 0 /\ unlinks = 0 /\ lost = FALSE
  /\ inbox = [m \in Inbound |-> "none"]

\* ---- connect()
(* Asked again after the link was started once, and by a timer: nothing      *)
(* happens while the transport is stopping.                                  *)
Dials == IF link.stopping THEN dialing' = dialing ELSE dialing < MaxWaits /\ dialing' = dialing + 1

PostLink ==
  /\ Dials
  /\ UNCHANGED <<socket, link, timers, unlinks, lost, inbox>>
TimerFires ==
  /\ timers > 0 /\ timers' = timers - 1
  /\ Dials
  /\ UNCHANGED <<socket, link, unlinks, lost, inbox>>

(* The new socket becomes the current one, without another look at stopping; *)
(* the one before it keeps its handlers.                                     *)
Connects(s) ==
  /\ dialing > 0 /\ dialing' = dialing - 1
  /\ socket[s] = "none" /\ \A t \in 1 .. s - 1 : socket[t] # "none"
  /\ socket' = [socket EXCEPT ![s] = "pairing"]
  /\ link' = [link EXCEPT !.sock = s]
  /\ UNCHANGED <<timers, unlinks, lost, inbox>>
(* An error on the way is swallowed by the timer's catch.                    *)
ConnectThrows ==
  /\ dialing > 0 /\ dialing' = dialing - 1
  /\ lost' = TRUE
  /\ UNCHANGED <<socket, link, timers, unlinks, inbox>>

\* ---- connection.update
ShowsQr(s) ==
  /\ socket[s] = "pairing"
  /\ link' = [link EXCEPT !.ready = FALSE]
  /\ UNCHANGED <<socket, dialing, timers, unlinks, lost, inbox>>
Opens(s) ==
  /\ socket[s] = "pairing"
  /\ socket' = [socket EXCEPT ![s] = "open"]
  /\ link' = [link EXCEPT !.ready = TRUE, !.session = TRUE]
  /\ UNCHANGED <<dialing, timers, unlinks, lost, inbox>>

SetsTimer == timers < MaxWaits /\ timers' = timers + 1
ReconnectsWhenLinked == IF link.stopping \/ ~link.session THEN timers' = timers ELSE SetsTimer
Reconnects == IF link.stopping THEN timers' = timers ELSE SetsTimer

(* Whichever socket closed, the transport is no longer ready.                *)
Closes(s) ==
  /\ Live(s)
  /\ socket' = [socket EXCEPT ![s] = "closed"]
  /\ link' = [link EXCEPT !.ready = FALSE]
  /\ Reconnects
  /\ UNCHANGED <<dialing, unlinks, lost, inbox>>
(* Logged out from the phone: the saved session goes, and a reconnect is set *)
(* whether or not the transport is stopping.                                 *)
LoggedOut(s) ==
  /\ Live(s)
  /\ socket' = [socket EXCEPT ![s] = "closed"]
  /\ link' = [link EXCEPT !.ready = FALSE, !.session = FALSE]
  /\ SetsTimer
  /\ UNCHANGED <<dialing, unlinks, lost, inbox>>

\* ---- stop(), unlink()
Hung(s) == [t \in Sockets |-> IF t = s /\ Live(t) THEN "closed" ELSE socket[t]]

StopsLink ==
  /\ ~link.stopping
  /\ link' = [link EXCEPT !.stopping = TRUE, !.ready = FALSE]
  /\ socket' = Hung(link.sock)
  /\ UNCHANGED <<dialing, timers, unlinks, lost, inbox>>

(* The current socket and the session are gone, and a new scan is offered.   *)
Unlinked ==
  /\ socket' = Hung(link.sock)
  /\ link' = [link EXCEPT !.ready = FALSE, !.session = FALSE, !.stopping = FALSE]
  /\ dialing < MaxWaits /\ dialing' = dialing + 1
  /\ UNCHANGED <<timers, lost, inbox>>

(* logout() is awaited where there is something to log out of.               *)
PostUnlink ==
  /\ link.ready
  /\ unlinks < MaxWaits /\ unlinks' = unlinks + 1
  /\ link' = [link EXCEPT !.stopping = TRUE]
  /\ UNCHANGED <<socket, dialing, timers, lost, inbox>>
UnlinkAtOnce == ~link.ready /\ Unlinked /\ unlinks' = unlinks
UnlinkEnds == unlinks > 0 /\ unlinks' = unlinks - 1 /\ Unlinked

\* ---- fileMessage()
(* Groups, status posts, its own messages and empty ones are dropped.  A     *)
(* photo is fetched, and goes on without its bytes when that fails; a text   *)
(* is filed with the desk first.  Two live sockets may both bring it.        *)
Arrives(m, s) ==
  /\ socket[s] = "open" /\ inbox[m] \in {"none", "fetching"}
  /\ inbox' = [inbox EXCEPT ![m] = "fetching"]
  /\ UNCHANGED <<socket, link, dialing, timers, unlinks, lost>>
HandsOver(m) ==
  /\ inbox[m] = "fetching"
  /\ inbox' = [inbox EXCEPT ![m] = "received"]
  /\ UNCHANGED <<socket, link, dialing, timers, unlinks, lost>>
(* What the desk or the intake throws is logged, and the message is gone.    *)
FilingThrows(m) ==
  /\ inbox[m] = "fetching"
  /\ inbox' = [inbox EXCEPT ![m] = "lost"]
  /\ UNCHANGED <<socket, link, dialing, timers, unlinks, lost>>

LinkNext ==
  \/ PostLink \/ TimerFires \/ ConnectThrows \/ StopsLink \/ PostUnlink \/ UnlinkAtOnce \/ UnlinkEnds
  \/ \E s \in Sockets : Connects(s) \/ ShowsQr(s) \/ Opens(s) \/ Closes(s) \/ LoggedOut(s)
  \/ \E m \in Inbound : HandsOver(m) \/ FilingThrows(m) \/ \E s \in Sockets : Arrives(m, s)

\* ---- properties
(* Until it is stopped, the transport has a live socket, a connect under way *)
(* or a reconnect set, through every drop, logout and unlink and whichever   *)
(* of its sockets they hit; only a connect that throws can end that (the     *)
(* handlers at linked-device.mjs:121-146).                                   *)
LinkKeepsTrying ==
  link.stopping \/ lost \/ dialing > 0 \/ timers > 0 \/ \E s \in Sockets : Live(s)
============================================================================
