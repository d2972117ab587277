------------------------------ MODULE Gateway -------------------------------
(***************************************************************************)
(* WebSocketGateway (sozia/server/api/gateway.py): the connections that    *)
(* run on_connect, the dictionary active_sessions they share under an      *)
(* asyncio.Lock, the engines each session's orchestrator loads and unloads *)
(* (warm_up and cool_down in fusion/orchestrator.py), and the shutdown     *)
(* that the application's lifespan runs.                                   *)
(*                                                                         *)
(* asyncio runs one task at a time.  A block under the lock is one step,   *)
(* as nothing in it waits, except that the duplicate branch waits for its  *)
(* WebSocket to close while it holds the lock.  Any send may raise when    *)
(* the client has gone.                                                    *)
(***************************************************************************)
EXTENDS Naturals

CONSTANTS
  Conns,     \* connections
  Sids,      \* session identifiers that clients choose
  Engines,   \* engines the factory registers for a path
  NoConn     \* None

ASSUME GatewayAssumption == NoConn \notin Conns

VARIABLES
  pc,        \* where each on_connect waits
  sid,       \* the session_id of each session_init
  lock,      \* the connection that waits while it holds _lock
  active,    \* the keys of active_sessions
  handler,   \* its values: the connection whose handler it is, or None
  load,      \* the state of each session's engines
  cooling,   \* the session each leaving connection is cooling down
  closes,    \* how often each handler was closed
  shut,      \* how far shutdown_all_sessions has come
  todo       \* the handlers it has yet to close

vars == <<pc, sid, lock, active, handler, load, cooling, closes, shut, todo>>

Init ==
  /\ pc = [c \in Conns |-> "init"]
  /\ sid \in [Conns -> Sids]
  /\ lock = NoConn
  /\ active = {}
  /\ handler = [s \in Sids |-> NoConn]
  /\ load = [c \in Conns |-> [e \in Engines |-> "no"]]
  /\ cooling = [c \in Conns |-> NoConn]
  /\ closes = [c \in Conns |-> 0]
  /\ shut = "no" /\ todo = {}

Goto(c, from, to) == pc[c] = from /\ pc' = [pc EXCEPT ![c] = to]

\* active_sessions.pop(s, None).
Pop(s) ==
  /\ active' = active \ {s}
  /\ handler' = [handler EXCEPT ![s] = NoConn]

\* handler.close(), once it has unloaded what was loaded.
Unloaded(c) == [e \in Engines |-> IF load[c][e] = "yes" THEN "no" ELSE load[c][e]]

-----------------------------------------------------------------------------
(* on_connect                                                              *)

\* No session_init in time, a bad one, a bad key, or the client leaves: the
\* connection is closed and has touched nothing.
Reject(c) ==
  /\ Goto(c, "init", "closed")
  /\ UNCHANGED <<sid, lock, active, handler, load, cooling, closes, shut, todo>>

\* session_init is read, authenticated and parsed; the lock comes next.
Hello(c) ==
  /\ Goto(c, "init", "claim")
  /\ UNCHANGED <<sid, lock, active, handler, load, cooling, closes, shut, todo>>

\* The session is there already: the connection is closed with 4003, while the
\* lock is held ...
ClaimDuplicate(c) ==
  /\ lock = NoConn /\ sid[c] \in active
  /\ Goto(c, "claim", "duplicate")
  /\ lock' = c
  /\ UNCHANGED <<sid, active, handler, load, cooling, closes, shut, todo>>

\* ... until the close is through, or raises.
BugLockKept(c) ==
  /\ Goto(c, "duplicate", "closed")
  /\ UNCHANGED <<sid, lock, active, handler, load, cooling, closes, shut, todo>>

DuplicateClosed(c) ==
  /\ Goto(c, "duplicate", "closed")
  /\ lock' = NoConn
  /\ UNCHANGED <<sid, active, handler, load, cooling, closes, shut, todo>>

\* It is not: the slot is reserved with None before the lock is released.
BugNotReserved(c) ==
  /\ lock = NoConn /\ sid[c] \notin active
  /\ Goto(c, "claim", "starting")
  /\ UNCHANGED <<sid, lock, active, handler, load, cooling, closes, shut, todo>>

ClaimSlot(c) ==
  /\ lock = NoConn /\ sid[c] \notin active
  /\ Goto(c, "claim", "starting")
  /\ active' = active \cup {sid[c]}
  /\ UNCHANGED <<sid, lock, handler, load, cooling, closes, shut, todo>>

\* The orchestrator is made and INITIALIZING sent; warm_up starts every load.
Announce(c) ==
  /\ Goto(c, "starting", "warming")
  /\ load' = [load EXCEPT ![c] = [e \in Engines |-> "loading"]]
  /\ UNCHANGED <<sid, lock, active, handler, cooling, closes, shut, todo>>

\* The factory or the send raises, and no handler catches it.
AnnounceFails(c) ==
  /\ Goto(c, "starting", "crashed")
  /\ UNCHANGED <<sid, lock, active, handler, load, cooling, closes, shut, todo>>

\* A load ends; it goes on after warm_up was given up.
Loads(c, e) ==
  /\ load[c][e] = "loading"
  /\ \E to \in {"yes", "failed"} : load' = [load EXCEPT ![c][e] = to]
  /\ UNCHANGED <<pc, sid, lock, active, handler, cooling, closes, shut, todo>>

\* gather returns when all have loaded, and raises when the first has failed.
BugFailuresIgnored(c) ==
  /\ Goto(c, "warming", "ready")
  /\ \A e \in Engines : load[c][e] # "loading"
  /\ UNCHANGED <<sid, lock, active, handler, load, cooling, closes, shut, todo>>

WarmUpDone(c) ==
  /\ Goto(c, "warming", "ready")
  /\ \A e \in Engines : load[c][e] = "yes"
  /\ UNCHANGED <<sid, lock, active, handler, load, cooling, closes, shut, todo>>

BugFailsOnlyTogether(c) ==
  /\ Goto(c, "warming", "failing")
  /\ \A e \in Engines : load[c][e] = "failed"
  /\ UNCHANGED <<sid, lock, active, handler, load, cooling, closes, shut, todo>>

WarmUpFails(c) ==
  /\ Goto(c, "warming", "failing")
  /\ \E e \in Engines : load[c][e] = "failed"
  /\ UNCHANGED <<sid, lock, active, handler, load, cooling, closes, shut, todo>>

\* The slot is given back and the connection closed with 4004.
BugSlotNotGivenBack(c) ==
  /\ lock = NoConn
  /\ Goto(c, "failing", "closed")
  /\ UNCHANGED <<sid, lock, active, handler, load, cooling, closes, shut, todo>>

GiveUp(c) ==
  /\ lock = NoConn
  /\ Goto(c, "failing", "closed")
  /\ Pop(sid[c])
  /\ UNCHANGED <<sid, lock, load, cooling, closes, shut, todo>>

\* The handler takes the reserved slot.
Register(c) ==
  /\ lock = NoConn
  /\ Goto(c, "ready", "registered")
  /\ active' = active \cup {sid[c]}
  /\ handler' = [handler EXCEPT ![sid[c]] = c]
  /\ UNCHANGED <<sid, lock, load, cooling, closes, shut, todo>>

\* RUNNING and ready are sent and the receive loop entered, ...
Greet(c) ==
  /\ Goto(c, "registered", "running")
  /\ UNCHANGED <<sid, lock, active, handler, load, cooling, closes, shut, todo>>

\* ... or a send raises, outside the try that cleans up.
GreetFails(c) ==
  /\ Goto(c, "registered", "crashed")
  /\ UNCHANGED <<sid, lock, active, handler, load, cooling, closes, shut, todo>>

\* The receive loop ends or raises.
LoopEnds(c) ==
  /\ Goto(c, "running", "leaving")
  /\ UNCHANGED <<sid, lock, active, handler, load, cooling, closes, shut, todo>>

\* on_disconnect pops the session and closes whatever handler it was; shutdown
\* may have popped it before.
BugSlotLeftBehind(c) ==
  /\ lock = NoConn
  /\ LET h == handler[sid[c]] IN
     /\ Goto(c, "leaving", IF h = NoConn THEN "closed" ELSE "cooling")
     /\ cooling' = [cooling EXCEPT ![c] = h]
     /\ closes' = IF h = NoConn THEN closes ELSE [closes EXCEPT ![h] = @ + 1]
  /\ UNCHANGED <<sid, lock, active, handler, load, shut, todo>>

OnDisconnect(c) ==
  /\ lock = NoConn
  /\ LET h == handler[sid[c]] IN
     /\ Goto(c, "leaving", IF h = NoConn THEN "closed" ELSE "cooling")
     /\ cooling' = [cooling EXCEPT ![c] = h]
     /\ closes' = IF h = NoConn THEN closes ELSE [closes EXCEPT ![h] = @ + 1]
  /\ Pop(sid[c])
  /\ UNCHANGED <<sid, lock, load, shut, todo>>

CooledDown(c) ==
  /\ Goto(c, "cooling", "closed")
  /\ load' = [load EXCEPT ![cooling[c]] = Unloaded(cooling[c])]
  /\ cooling' = [cooling EXCEPT ![c] = NoConn]
  /\ UNCHANGED <<sid, lock, active, handler, closes, shut, todo>>

-----------------------------------------------------------------------------
(* shutdown_all_sessions                                                   *)

\* The dictionary is copied and cleared; reserved slots have no handler.
BugShutdownWithoutClear ==
  /\ shut = "no" /\ lock = NoConn
  /\ shut' = "closing"
  /\ todo' = {handler[s] : s \in active} \ {NoConn}
  /\ UNCHANGED <<pc, sid, lock, active, handler, load, cooling, closes>>

BugShutdownKeepsNone ==
  /\ shut = "no" /\ lock = NoConn
  /\ shut' = "closing"
  /\ todo' = {handler[s] : s \in active}
  /\ active' = {} /\ handler' = [s \in Sids |-> NoConn]
  /\ UNCHANGED <<pc, sid, lock, load, cooling, closes>>

Shutdown ==
  /\ shut = "no" /\ lock = NoConn
  /\ shut' = "closing"
  /\ todo' = {handler[s] : s \in active} \ {NoConn}
  /\ active' = {} /\ handler' = [s \in Sids |-> NoConn]
  /\ UNCHANGED <<pc, sid, lock, load, cooling, closes>>

\* The handlers are closed one after the other, whatever their loops do.
ShutdownCloses(c) ==
  /\ shut = "closing" /\ c \in todo
  /\ todo' = todo \ {c}
  /\ load' = [load EXCEPT ![c] = Unloaded(c)]
  /\ closes' = [closes EXCEPT ![c] = @ + 1]
  /\ UNCHANGED <<pc, sid, lock, active, handler, cooling, shut>>

ShutdownDone ==
  /\ shut = "closing" /\ todo = {}
  /\ shut' = "done"
  /\ UNCHANGED <<pc, sid, lock, active, handler, load, cooling, closes, todo>>

-----------------------------------------------------------------------------
Lifecycle(c) ==
  \/ ClaimDuplicate(c) \/ DuplicateClosed(c) \/ ClaimSlot(c)
  \/ Announce(c) \/ AnnounceFails(c)
  \/ WarmUpDone(c) \/ WarmUpFails(c) \/ GiveUp(c)
  \/ Register(c) \/ Greet(c) \/ GreetFails(c)
  \/ OnDisconnect(c) \/ CooledDown(c)

Next ==
  \/ \E c \in Conns :
       \/ Reject(c) \/ Hello(c) \/ Lifecycle(c) \/ LoopEnds(c)
       \/ \E e \in Engines : Loads(c, e)
  \/ Shutdown
  \/ \E c \in Conns : ShutdownCloses(c)
  \/ ShutdownDone

Spec == Init /\ [][Next]_vars

\* Steps of the server's own are taken: sends and closes end, loads end, and a
\* task that waits for the lock gets its turn (asyncio.Lock is first come, first
\* served, so a lock that is free again and again is enough).  Nothing is
\* assumed of clients, which may stay for ever, nor of the shutdown.
Fairness ==
  \A c \in Conns :
    /\ SF_vars(ClaimDuplicate(c) \/ ClaimSlot(c))
    /\ SF_vars(GiveUp(c)) /\ SF_vars(Register(c)) /\ SF_vars(OnDisconnect(c))
    /\ WF_vars(DuplicateClosed(c))
    /\ WF_vars(Announce(c) \/ AnnounceFails(c))
    /\ WF_vars(WarmUpDone(c) \/ WarmUpFails(c))
    /\ WF_vars(Greet(c) \/ GreetFails(c))
    /\ WF_vars(CooledDown(c))
    /\ \A e \in Engines : WF_vars(Loads(c, e))

FairSpec == Spec /\ Fairness

-----------------------------------------------------------------------------
PCs == {"init", "claim", "duplicate", "starting", "warming", "failing", "ready",
        "registered", "running", "leaving", "cooling", "closed", "crashed"}

\* Every variable has its type.
TypeOK ==
  /\ pc \in [Conns -> PCs]
  /\ sid \in [Conns -> Sids]
  /\ lock \in Conns \cup {NoConn}
  /\ active \subseteq Sids
  /\ handler \in [Sids -> Conns \cup {NoConn}]
  /\ load \in [Conns -> [Engines -> {"no", "loading", "yes", "failed"}]]
  /\ cooling \in [Conns -> Conns \cup {NoConn}]
  /\ closes \in [Conns -> Nat]
  /\ shut \in {"no", "closing", "done"}
  /\ todo \subseteq Conns

\* The states in which on_connect believes that it has the slot of its session.
Holding(c) ==
  pc[c] \in {"starting", "warming", "failing", "ready", "registered", "running",
             "leaving"}

\* Two connections never run one session: the duplicate check, the reservation
\* and the clean-up by session_id hold together whatever the interleaving, until
\* the server shuts down.
OneSessionPerId ==
  shut = "no" =>
    \A c, d \in Conns : Holding(c) /\ Holding(d) /\ sid[c] = sid[d] => c = d

\* A handler in the dictionary is that of the connection that runs the session,
\* so on_disconnect closes its own (or one that crashed left its slot behind).
HandlerIsOwn ==
  \A s \in Sids : handler[s] # NoConn =>
    /\ s \in active /\ sid[handler[s]] = s
    /\ pc[handler[s]] \in {"registered", "running", "leaving", "crashed"}

\* A session given up, ended or refused holds no slot: only one that is under
\* way or crashed keeps a new connection out.
SlotIsHeld ==
  \A s \in active :
    \E c \in Conns : sid[c] = s /\ (Holding(c) \/ pc[c] = "crashed")

\* A handler is closed at most once, though its own connection and the shutdown
\* may both be about to.
ClosedOnce == \A c \in Conns : closes[c] <= 1

\* A session that runs has all its engines, until the server shuts down: nobody
\* else unloads them.
RunningIsWarm ==
  shut = "no" =>
    \A c \in Conns : pc[c] \in {"registered", "running"} =>
      \A e \in Engines : load[c][e] = "yes"

\* A client that has sent its session_init is told the outcome, and one that has
\* left is cleaned up after, though a duplicate holds the lock while it closes.
ClaimIsAnswered ==
  \A c \in Conns : pc[c] = "claim" ~> pc[c] \in {"running", "closed", "crashed"}

LeaverIsCleanedUp == \A c \in Conns : pc[c] = "leaving" ~> pc[c] = "closed"

-----------------------------------------------------------------------------
\* gateway.py:259 tells a client that its session is already active only when it
\* is: some connection is under way with it.
DuplicateIsReal ==
  [][\A c \in Conns : ClaimDuplicate(c) /\ shut = "no" =>
       \E d \in Conns : sid[d] = sid[c] /\ Holding(d)]_vars

\* gateway.py:75 ends on_connect with a clean-up on exit: no connection that is
\* over leaves its handler behind.
CleansUpOnExit ==
  \A s \in Sids : handler[s] # NoConn => pc[handler[s]] # "crashed"

\* gateway.py:147 says that shutdown closes every active session, so that what it
\* has loaded is released: whoever has engines then is in line to be closed.
ShutdownTakesAll ==
  [][Shutdown => \A c \in Conns :
       Holding(c) /\ (\E e \in Engines : load[c][e] \in {"loading", "yes"}) =>
         c \in todo']_vars
=============================================================================
