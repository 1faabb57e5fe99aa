---------------------------- MODULE PortForwards ----------------------------
(* SSH port forwards: the table of active forwards, Start, Stop and the    *)
(* CloseAll of shutdown (src/internal/portforward), and the SSH tunnel     *)
(* under each of them with its accept loop, its connections and its Close  *)
(* (src/internal/tunnel).                                                  *)
EXTENDS Naturals, FiniteSets

CONSTANTS
  Forwards,    \* calls of Start, each with the forward it makes
  Ports,       \* local ports asked for
  Conns        \* local connections to the listeners

ASSUME ForwardsAssumption == Forwards # {}

VARIABLES
  fwd,        \* fwd[f]: how far the call of Start and its tunnel are
  port,       \* port[f]: the local port
  active,     \* Manager.active: forwards in the table
  closes,     \* closes[f]: how many Close calls found t.closed open
  allClosed,  \* CloseAll has run, at shutdown
  conn,       \* conn[c]: none, dialing (counted by wg), piping, ended
  via         \* via[c]: the forward that accepted c

fwdVars == <<fwd, port, active, closes, allClosed, conn, via>>

\* Listening are the tunnels whose listener is open; "closing" waits for wg.
Listening == {f \in Forwards : fwd[f] \in {"listening", "started", "removed"}}
Closing == {f \in Forwards : fwd[f] \in {"closing", "closed"}}

FwdTypeOK ==
  /\ fwd \in [Forwards -> {"none", "checked", "listening", "started", "removed",
                           "closing", "closed", "failed"}]
  /\ port \in [Forwards -> Ports]
  /\ active \subseteq Forwards
  /\ closes \in [Forwards -> 0..2]
  /\ allClosed \in BOOLEAN
  /\ conn \in [Conns -> {"none", "dialing", "piping", "ended"}]
  /\ via \in [Conns -> Forwards]

FwdInit ==
  /\ fwd = [f \in Forwards |-> "none"]
  /\ port \in [Forwards -> Ports]
  /\ active = {} /\ closes = [f \in Forwards |-> 0] /\ allClosed = FALSE
  /\ conn = [c \in Conns |-> "none"]
  /\ via = [c \in Conns |-> CHOOSE f \in Forwards : TRUE]

SetForward(f, state) == fwd' = [fwd EXCEPT ![f] = state]
-----------------------------------------------------------------------------
(* Start. It looks at the table without the lock, then tries the port.     *)
PortTaken(f) == \E g \in active \cup Listening : port[g] = port[f]

StartChecks(f) ==
  /\ fwd[f] = "none"
  /\ SetForward(f, IF PortTaken(f) THEN "failed" ELSE "checked")
  /\ UNCHANGED <<port, active, closes, allClosed, conn, via>>

\* DialPortForward: the SSH server may refuse; the port may be taken by now,
\* by a listener that no table entry announced when it was checked.
StartDials(f) ==
  /\ fwd[f] = "checked"
  /\ \/ SetForward(f, "failed")
     \/ /\ \A g \in Listening : port[g] # port[f]
        /\ SetForward(f, "listening")
  /\ UNCHANGED <<port, active, closes, allClosed, conn, via>>

StartRegisters(f) ==
  /\ fwd[f] = "listening"
  /\ SetForward(f, "started")
  /\ active' = active \cup {f}
  /\ UNCHANGED <<port, closes, allClosed, conn, via>>
-----------------------------------------------------------------------------
(* Stop takes the entry out under the lock and closes the tunnel after it. *)
StopRemoves_Looks(f) ==
  /\ f \in active /\ SetForward(f, "removed")
  /\ UNCHANGED <<port, active, closes, allClosed, conn, via>>
StopRemoves(f) ==
  /\ f \in active
  /\ active' = active \ {f}
  /\ SetForward(f, "removed")
  /\ UNCHANGED <<port, closes, allClosed, conn, via>>

\* Close closes t.closed and the listener. The second of two closers that both
\* saw t.closed open would panic.
StopCloses(f) ==
  /\ fwd[f] = "removed"
  /\ closes' = [closes EXCEPT ![f] = @ + 1]
  /\ SetForward(f, "closing")
  /\ UNCHANGED <<port, active, allClosed, conn, via>>

\* The wait for wg ends with its last connection or after three seconds; the
\* SSH client is closed then.
TunnelCloses(f) ==
  /\ fwd[f] = "closing"
  /\ SetForward(f, "closed")
  /\ UNCHANGED <<port, active, closes, allClosed, conn, via>>

\* CloseAll holds the lock while it closes every tunnel of the table.
CloseAll ==
  /\ ~allClosed /\ allClosed' = TRUE
  /\ fwd' = [f \in Forwards |-> IF f \in active THEN "closing" ELSE fwd[f]]
  /\ closes' = [f \in Forwards |-> IF f \in active THEN closes[f] + 1 ELSE closes[f]]
  /\ active' = {}
  /\ UNCHANGED <<port, conn, via>>
-----------------------------------------------------------------------------
(* Connections.                                                            *)
SetConn(c, state) ==
  /\ conn' = [conn EXCEPT ![c] = state]
  /\ UNCHANGED <<fwd, port, active, closes, allClosed>>

Accept(f, c) ==
  /\ f \in Listening /\ conn[c] = "none"
  /\ SetConn(c, "dialing")
  /\ via' = [via EXCEPT ![c] = f]

\* client.Dial: fails when the peer refuses and once the client is closed.
Dialed(c) ==
  /\ conn[c] = "dialing"
  /\ \/ SetConn(c, "ended")
     \/ fwd[via[c]] # "closed" /\ SetConn(c, "piping")
  /\ UNCHANGED via

\* One direction of the copy ends at any time of its own.
CopyEnds(c) ==
  /\ conn[c] = "piping" /\ SetConn(c, "ended")
  /\ UNCHANGED via

\* The goroutine that owns both ends also waits for t.closed.
PipeSeesClosed_Deaf(c) == FALSE
PipeSeesClosed(c) ==
  /\ conn[c] = "piping" /\ via[c] \in Closing
  /\ SetConn(c, "ended")
  /\ UNCHANGED via
-----------------------------------------------------------------------------
FwdNext ==
  \/ CloseAll
  \/ \E f \in Forwards :
       \/ StartChecks(f) \/ StartDials(f) \/ StartRegisters(f)
       \/ StopRemoves(f) \/ StopCloses(f) \/ TunnelCloses(f)
       \/ \E c \in Conns : Accept(f, c)
  \/ \E c \in Conns : Dialed(c) \/ CopyEnds(c) \/ PipeSeesClosed(c)

FwdSpec == FwdInit /\ [][FwdNext]_fwdVars
-----------------------------------------------------------------------------
\* Every open listener has someone who will close it: the table, for Stop and
\* CloseAll, or the call of Start or Stop that holds it; and the table shows no
\* forward whose listener is closed. (A Start that registers after CloseAll has
\* run stays in the table of the ending program, and a forward whose SSH server
\* went away stays listed until it is stopped.)
ListenersOwned ==
  /\ active \subseteq Listening
  /\ \A f \in Listening : f \in active <=> fwd[f] = "started"

\* A tunnel is closed once, by Stop or by CloseAll, however the two meet; Close
\* itself would not survive two callers.
ClosedOnce ==
  \A f \in Forwards : /\ closes[f] <= 1
                      /\ f \in Closing <=> closes[f] = 1

\* What the forwards promise.
ForwardsSafe == ListenersOwned /\ ClosedOnce

\* Once a tunnel closes, the connections it has accepted end, those included
\* that were still dialing when its wait of three seconds was over.
ConnsEnd ==
  \A c \in Conns : (conn[c] \in {"dialing", "piping"} /\ via[c] \in Closing) ~> conn[c] = "ended"
=============================================================================
