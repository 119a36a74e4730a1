-------------------------- MODULE GameSocketClient --------------------------
(***************************************************************************)
(* The browser's side of the connection (apps/client/src):                 *)
(* GameSocketClient around one socket of socket.io, whose own reconnection *)
(* is switched off.                                                        *)
(*                                                                         *)
(* The socket is external.  connect() opens a closed connection and does   *)
(* nothing to one that is open or opening.  An attempt that fails emits    *)
(* connect_error, to which the client does not listen.  disconnect() emits *)
(* "disconnect" at once if the connection is open, and nothing if it is    *)
(* still opening.                                                          *)
(***************************************************************************)
EXTENDS Integers

CONSTANT MaxReconnectAttempts

ASSUME AttemptsAssumption == MaxReconnectAttempts \in Nat \ {0}

VARIABLES
  state,             \* what getState tells the application
  reconnectAttempts,
  reconnectTimer,    \* whether one is pending
  pendingJoin,       \* whether there is a pendingJoinPayload
  link               \* external: the connection

clientVars == <<state, reconnectAttempts, reconnectTimer, pendingJoin, link>>

ClientTypeOK ==
  /\ state \in {"idle", "connecting", "connected", "failed"}
  /\ reconnectAttempts \in 0..MaxReconnectAttempts
  /\ reconnectTimer \in BOOLEAN
  /\ pendingJoin \in BOOLEAN
  /\ link \in {"closed", "opening", "open"}

ClientInit ==
  /\ state = "idle"
  /\ reconnectAttempts = 0
  /\ reconnectTimer = FALSE
  /\ pendingJoin = FALSE
  /\ link = "closed"

(* socket.connect()                                                        *)
Connect == link' = IF link = "closed" THEN "opening" ELSE link

(***************************************************************************)
(* The application.                                                        *)
(***************************************************************************)
ConnectAndJoin ==
  /\ pendingJoin' = TRUE
  /\ state' = "connecting"
  /\ Connect
  /\ UNCHANGED <<reconnectAttempts, reconnectTimer>>

(* Mutant: leaves the timer running.                                       *)
DisconnectOnly ==
  /\ pendingJoin' = FALSE
  /\ state' = "idle"
  /\ link' = "closed"
  /\ UNCHANGED <<reconnectAttempts, reconnectTimer>>

(* The payload is gone before the socket says "io client disconnect".      *)
Disconnect ==
  /\ reconnectTimer' = FALSE
  /\ pendingJoin' = FALSE
  /\ state' = "idle"
  /\ link' = "closed"
  /\ UNCHANGED reconnectAttempts

(***************************************************************************)
(* Events of the socket, and the timer.                                    *)
(***************************************************************************)
(* join_room goes out.                                                     *)
OnConnect ==
  /\ link = "opening"
  /\ link' = "open"
  /\ state' = "connected"
  /\ reconnectAttempts' = 0
  /\ UNCHANGED <<reconnectTimer, pendingJoin>>

OnConnectError ==
  /\ link = "opening"
  /\ link' = "closed"
  /\ UNCHANGED <<state, reconnectAttempts, reconnectTimer, pendingJoin>>

(* Mutant: clears the timer once it is set.                                *)
OnDisconnectSetThenClear ==
  /\ link = "open"
  /\ link' = "closed"
  /\ IF pendingJoin /\ reconnectAttempts >= MaxReconnectAttempts
     THEN state' = "failed" /\ UNCHANGED reconnectAttempts
     ELSE /\ state' = "idle"
          /\ reconnectAttempts' = reconnectAttempts + (IF pendingJoin THEN 1 ELSE 0)
  /\ reconnectTimer' = FALSE
  /\ UNCHANGED pendingJoin

(* The server or the network ends the connection: scheduleReconnect.       *)
OnDisconnect ==
  /\ link = "open"
  /\ link' = "closed"
  /\ IF pendingJoin /\ reconnectAttempts >= MaxReconnectAttempts
     THEN state' = "failed" /\ UNCHANGED <<reconnectAttempts, reconnectTimer>>
     ELSE /\ state' = "idle"
          /\ reconnectTimer' = (reconnectTimer \/ pendingJoin)
          /\ reconnectAttempts' = reconnectAttempts + (IF pendingJoin THEN 1 ELSE 0)
  /\ UNCHANGED pendingJoin

ReconnectDelayEnds ==
  /\ reconnectTimer
  /\ reconnectTimer' = FALSE
  /\ state' = "connecting"
  /\ Connect
  /\ UNCHANGED <<reconnectAttempts, pendingJoin>>

ClientNext ==
  \/ ConnectAndJoin \/ Disconnect
  \/ OnConnect \/ OnConnectError \/ OnDisconnect \/ ReconnectDelayEnds

(* An attempt ends one way or the other, and timers fire.                  *)
ClientFairness ==
  /\ WF_clientVars(OnConnect \/ OnConnectError)
  /\ WF_clientVars(ReconnectDelayEnds)

ClientSpec == ClientInit /\ [][ClientNext]_clientVars /\ ClientFairness

(***************************************************************************)
(* What it guarantees, and what it is meant to.                            *)
(***************************************************************************)
(* A client that has been told to disconnect stays away: no timer, no      *)
(* attempt under way and no connection is left to bring it back.           *)
StaysAway == ~pendingJoin => ~reconnectTimer /\ link = "closed"

(* A connection that is lost, and not given up by the application, is      *)
(* followed by an attempt to return.                                       *)
LossIsRetried == (state = "idle" /\ pendingJoin) ~> (link = "opening" \/ ~pendingJoin)

(* What the count of attempts, their delays and the state "failed" are     *)
(* for: unless the application asks again and again, a loss ends with the  *)
(* player back in, a report of failure or the application giving up.  It   *)
(* fails: nothing follows an attempt that fails.                           *)
LossIsResolved ==
  \/ (state = "idle" /\ pendingJoin) ~> (state \in {"connected", "failed"} \/ ~pendingJoin)
  \/ []<><<ConnectAndJoin>>_clientVars
=============================================================================
