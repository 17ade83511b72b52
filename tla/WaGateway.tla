----------------------------- MODULE WaGateway -----------------------------
(***************************************************************************)
(* The WhatsApp gateway: session-manager.ts behind the routes of index.ts, *)
(* for one session id (they share nothing), sending at the pace SendRate   *)
(* allows.  JavaScript runs one piece of code at a time, to the next       *)
(* await; sockets of the WhatsApp library (external) open and close when   *)
(* they like, and say so in connection.update; one that has closed is not  *)
(* heard of again, and stands for any later one.                           *)
(***************************************************************************)
EXTENDS SendRate

CONSTANTS
  Callers,       \* HTTP requests at a time
  Sockets,       \* bound: sockets open at a time, and one more
  NoSocket,
  MaxReconnects, \* bound: reconnections under way at a time
  MaxRestarts    \* bound: times the process dies

ASSUME GatewayAssumption ==
  NoSocket \notin Sockets /\ MaxReconnects \in Nat /\ MaxRestarts \in Nat

VARIABLES
  socket,       \* what each socket last said of its connection
  session,      \* the entry of the sessions map
  status,       \* the entry of the state map
  call,         \* where each request is
  reconnects,   \* reconnections that are under way
  overlapped,   \* two sockets were being made at a time, since the process began
  restarts

gatewayVars == <<socket, session, status, call, reconnects, overlapped, restarts>>
waVars == <<rateVars, gatewayVars>>

Live == {k \in Sockets : socket[k] \in {"connecting", "open"}}

NoStatus == [connection |-> "none", paused |-> FALSE]
IdleCall == [pc |-> "idle", op |-> "connect"]

WaTypeOK ==
  /\ RateTypeOK
  /\ socket \in [Sockets -> {"none", "connecting", "open", "close"}]
  /\ session \in Sockets \cup {NoSocket}
  /\ status \in [connection : {"none", "connecting", "open", "close"}, paused : BOOLEAN]
  /\ call \in [Callers -> [pc : {"idle", "making", "asking", "sending"}, op : {"connect", "send"}]]
  /\ reconnects \in 0..MaxReconnects /\ overlapped \in BOOLEAN /\ restarts \in 0..MaxRestarts

Booted ==
  /\ socket' = [k \in Sockets |-> "none"]
  /\ session' = NoSocket /\ status' = NoStatus
  /\ call' = [c \in Callers |-> IdleCall]
  /\ reconnects' = 0 /\ overlapped' = FALSE

WaInit ==
  /\ RateInit
  /\ socket = [k \in Sockets |-> "none"]
  /\ session = NoSocket /\ status = NoStatus
  /\ call = [c \in Callers |-> IdleCall]
  /\ reconnects = 0 /\ overlapped = FALSE /\ restarts = 0

-----------------------------------------------------------------------------
(***************************************************************************)
(* ensureSession: the check of the map, an await or two, and a new socket  *)
(* that takes the entry of the map, whatever it is by then.                *)
(***************************************************************************)
Making == reconnects > 0 \/ \E c \in Callers : call[c].pc = "making"

EnsureSession(c, op) ==
  /\ call[c].pc = "idle"
  /\ op = "send" => ~status.paused
  /\ IF session # NoSocket
     THEN /\ op = "send"
          /\ call' = [call EXCEPT ![c] = [pc |-> "asking", op |-> op]]
          /\ UNCHANGED overlapped
     ELSE /\ call' = [call EXCEPT ![c] = [pc |-> "making", op |-> op]]
          /\ overlapped' = (overlapped \/ Making)
  /\ UNCHANGED <<rateVars, socket, session, status, reconnects, restarts>>

MakeSocket(k) ==
  /\ k \notin Live
  /\ socket' = [socket EXCEPT ![k] = "connecting"]
  /\ status' = [connection |-> "connecting", paused |-> FALSE]
  /\ session' = k

(* Fault: each socket has a token bucket to itself.                        *)
MadeWithBucket(c, k) ==
  /\ call[c].pc = "making"
  /\ MakeSocket(k)
  /\ call' = [call EXCEPT ![c] =
       IF call[c].op = "send" THEN [@ EXCEPT !.pc = "asking"] ELSE IdleCall]
  /\ bucket' = [tokens |-> Full, count |-> 0, age |-> Later]
  /\ UNCHANGED <<watch, reconnects, overlapped, restarts>>

Made(c, k) ==
  /\ call[c].pc = "making"
  /\ MakeSocket(k)
  /\ call' = [call EXCEPT ![c] =
       IF call[c].op = "send" THEN [@ EXCEPT !.pc = "asking"] ELSE IdleCall]
  /\ UNCHANGED <<rateVars, reconnects, overlapped, restarts>>

Reconnected(k) ==
  /\ reconnects > 0
  /\ MakeSocket(k)
  /\ reconnects' = reconnects - 1
  /\ UNCHANGED <<rateVars, call, overlapped, restarts>>

(* A reconnection that fails is logged, and a send that fails answered;    *)
(* nobody catches the failure of a connect, and the process goes down.     *)
MakingFails ==
  /\ \/ \E c \in Callers :
          /\ call[c].pc = "making" /\ call[c].op = "send"
          /\ call' = [call EXCEPT ![c] = IdleCall]
          /\ UNCHANGED reconnects
     \/ reconnects > 0 /\ reconnects' = reconnects - 1 /\ UNCHANGED call
  /\ UNCHANGED <<rateVars, socket, session, status, overlapped, restarts>>

-----------------------------------------------------------------------------
(***************************************************************************)
(* connection.update: every socket the session ever had writes the one     *)
(* entry of each map.                                                      *)
(***************************************************************************)
Opens(k) ==
  /\ socket[k] = "connecting"
  /\ socket' = [socket EXCEPT ![k] = "open"]
  /\ status' = [connection |-> "open", paused |-> FALSE]
  /\ UNCHANGED <<rateVars, session, call, reconnects, overlapped, restarts>>

(* Logged out, a bad session, or replaced by another connection.           *)
ClosesForGood(k) ==
  /\ k \in Live
  /\ socket' = [socket EXCEPT ![k] = "close"]
  /\ status' = [connection |-> "close", paused |-> TRUE]
  /\ session' = NoSocket
  /\ UNCHANGED <<rateVars, call, reconnects, overlapped, restarts>>

(* Fault: reconnect leaves the entry of the map.                           *)
ClosesAndStays(k) ==
  /\ k \in Live
  /\ socket' = [socket EXCEPT ![k] = "close"]
  /\ status' = [status EXCEPT !.connection = "close"]
  /\ overlapped' = (overlapped \/ Making)
  /\ UNCHANGED <<rateVars, session, call, reconnects, restarts>>

Closes(k) ==
  /\ k \in Live
  /\ reconnects < MaxReconnects
  /\ socket' = [socket EXCEPT ![k] = "close"]
  /\ status' = [status EXCEPT !.connection = "close"]
  /\ session' = NoSocket
  /\ reconnects' = reconnects + 1
  /\ overlapped' = (overlapped \/ Making)
  /\ UNCHANGED <<rateVars, call, restarts>>

-----------------------------------------------------------------------------
(***************************************************************************)
(* sendMessage, once it has its socket.  Which one that was is not kept: a *)
(* socket that has closed by then refuses the message (the library does).  *)
(***************************************************************************)
Consume(c) ==
  /\ call[c].pc = "asking"
  /\ \/ Take   /\ call' = [call EXCEPT ![c].pc = "sending"]
     \/ Refuse /\ call' = [call EXCEPT ![c] = IdleCall]
  /\ UNCHANGED <<socket, session, status, reconnects, overlapped, restarts>>

HandOver(c) ==
  /\ call[c].pc = "sending"
  /\ call' = [call EXCEPT ![c] = IdleCall]
  /\ UNCHANGED <<rateVars, socket, session, status, reconnects, overlapped, restarts>>

-----------------------------------------------------------------------------
Tick == Pass /\ UNCHANGED gatewayVars

BeginWatch == Watch /\ UNCHANGED gatewayVars

(* Redis stays up, the process does not.                                   *)
Restart ==
  /\ restarts < MaxRestarts
  /\ restarts' = restarts + 1
  /\ Booted
  /\ UNCHANGED rateVars

WaNext ==
  \/ \E c \in Callers :
       \/ \E op \in {"connect", "send"} : EnsureSession(c, op)
       \/ \E k \in Sockets : Made(c, k)
       \/ Consume(c) \/ HandOver(c)
  \/ \E k \in Sockets : Reconnected(k) \/ Opens(k) \/ ClosesForGood(k) \/ Closes(k)
  \/ MakingFails \/ Tick \/ BeginWatch \/ Restart

WaSpec == WaInit /\ [][WaNext]_waVars

(* Time passes, and Redis answers.                                         *)
WaFairSpec == WaSpec /\ WF_waVars(Tick) /\ \A c \in Callers : WF_waVars(Consume(c))
-----------------------------------------------------------------------------
(***************************************************************************)
(* Unless two sockets were being made at a time, there is no live socket   *)
(* but the one in the map, the one in the map is live, and the state map   *)
(* tells how it is: a session is paused only when it has no socket.        *)
(* (After an overlap a socket can be left out of the map, and its close    *)
(* takes the other one out of it, and pauses the session.)                 *)
(***************************************************************************)
OneSocketAtATime ==
  ~overlapped =>
    /\ Live = {session} \ {NoSocket}
    /\ status.connection = IF session # NoSocket THEN socket[session] ELSE
                           IF status = NoStatus THEN "none" ELSE "close"
    /\ status.paused => session = NoSocket

(***************************************************************************)
(* While requests keep asking for tokens, messages keep going out:  a      *)
(* refusal does not put off the next token.                                *)
(***************************************************************************)
RefusalsEnd ==
  []<>(\E c \in Callers : call[c].pc = "asking") => []<>(\E c \in Callers : call[c].pc = "sending")
=============================================================================
