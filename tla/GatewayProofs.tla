--------------------------- MODULE GatewayProofs ----------------------------
(***************************************************************************)
(* For every number of connections, session identifiers and engines: who   *)
(* holds a session's slot, whose handler is in it, how often a handler is  *)
(* closed and which engines a running session has.                         *)
(***************************************************************************)
EXTENDS Gateway, TLAPS

\* Until the server shuts down a connection under way has its slot reserved:
\* OneSessionPerId rests on it, since it is the slot that a claim looks at.
SlotsAreReserved == shut = "no" => \A c \in Conns : Holding(c) => sid[c] \in active

\* An entry of the dictionary is a slot that is held, with a handler or not yet.
SlotInv ==
  /\ TypeOK
  /\ SlotsAreReserved
  /\ OneSessionPerId
  /\ HandlerIsOwn
  /\ SlotIsHeld

\* The states of a connection before its handler is in the dictionary.
Early == {"init", "claim", "duplicate", "starting", "warming", "failing", "ready"}

\* A handler that someone may yet close, or that is not there to be closed.
Unclosed(c) == c \in todo \/ handler[sid[c]] = c \/ pc[c] \in Early

\* The dictionary and the shutdown's list never have the same handler, and what
\* one of them has, or is still to come, was not closed.
CloseInv ==
  /\ SlotInv
  /\ todo # {} => shut = "closing"
  /\ \A c \in todo : handler[sid[c]] # c /\ pc[c] \notin Early
  /\ \A c \in Conns : closes[c] <= 1 /\ (Unclosed(c) => closes[c] = 0)

\* A session is ready only with all its engines, and until the server shuts down
\* what a leaving connection cools down is its own session, or a crashed one.
WarmInv ==
  /\ SlotInv
  /\ \A c \in Conns : pc[c] = "cooling" => cooling[c] \in Conns
  /\ shut = "no" =>
       \A c \in Conns :
         /\ pc[c] \in {"ready", "registered", "running"} =>
              \A e \in Engines : load[c][e] = "yes"
         /\ pc[c] = "cooling" => cooling[c] = c \/ pc[cooling[c]] = "crashed"

-----------------------------------------------------------------------------
\* The steps of a connection that change nothing but where it waits, and the lock.
Waits(c) ==
  \/ Reject(c) \/ Hello(c) \/ ClaimDuplicate(c) \/ DuplicateClosed(c)
  \/ AnnounceFails(c) \/ WarmUpDone(c) \/ WarmUpFails(c)
  \/ Greet(c) \/ GreetFails(c) \/ LoopEnds(c)

\* They lead from one of these states to another, and keep the dictionary, the
\* engines and the closes.
LEMMA WaitsMove ==
  ASSUME NEW c \in Conns, Waits(c)
  PROVE  \E from, to \in PCs :
           /\ pc[c] = from /\ pc' = [pc EXCEPT ![c] = to]
           /\ <<from, to>> \in
                {<<"init", "closed">>, <<"init", "claim">>, <<"claim", "duplicate">>,
                 <<"duplicate", "closed">>, <<"starting", "crashed">>,
                 <<"warming", "ready">>, <<"warming", "failing">>,
                 <<"registered", "running">>, <<"registered", "crashed">>,
                 <<"running", "leaving">>}
           /\ lock' \in {lock, c, NoConn}
           /\ to = "ready" => \A e \in Engines : load[c][e] = "yes"
           /\ UNCHANGED <<sid, active, handler, load, cooling, closes, shut, todo>>
BY DEF Waits, Reject, Hello, ClaimDuplicate, DuplicateClosed, AnnounceFails,
       WarmUpDone, WarmUpFails, Greet, GreetFails, LoopEnds, Goto, PCs

\* Every step is one of these.
LEMMA NextCases ==
  ASSUME [Next]_vars
  PROVE  \/ \E c \in Conns :
              \/ Waits(c) \/ ClaimSlot(c) \/ Announce(c) \/ GiveUp(c)
              \/ Register(c) \/ OnDisconnect(c) \/ CooledDown(c)
              \/ \E e \in Engines : Loads(c, e)
              \/ ShutdownCloses(c)
         \/ Shutdown \/ ShutdownDone \/ UNCHANGED vars
BY DEF Next, Lifecycle, Waits

\* The initial states satisfy all three.
LEMMA InitInv == Init => CloseInv /\ WarmInv
<1> SUFFICES ASSUME Init PROVE CloseInv /\ WarmInv
  OBVIOUS
<1>1. TypeOK
  BY DEF Init, TypeOK, PCs
<1>2. SlotInv
  BY <1>1 DEF Init, SlotInv, SlotsAreReserved, OneSessionPerId, HandlerIsOwn,
              SlotIsHeld, Holding
<1>3. CloseInv
  BY <1>1, <1>2, GatewayAssumption DEF Init, CloseInv, Unclosed, TypeOK
<1> QED
  BY <1>2, <1>3 DEF Init, WarmInv

\* Every step keeps TypeOK.
LEMMA TypeStep == TypeOK /\ [Next]_vars => TypeOK'
<1> SUFFICES ASSUME TypeOK, [Next]_vars PROVE TypeOK'
  OBVIOUS
<1> USE DEF TypeOK
<1>1. ASSUME NEW c \in Conns, Waits(c) PROVE TypeOK'
  BY <1>1, WaitsMove
<1>2. ASSUME NEW c \in Conns, ClaimSlot(c) \/ GiveUp(c) \/ Register(c) PROVE TypeOK'
  <2>1. CASE ClaimSlot(c)
    BY <2>1 DEF ClaimSlot, Goto, PCs
  <2>2. CASE GiveUp(c)
    BY <2>2 DEF GiveUp, Goto, Pop, PCs
  <2>3. CASE Register(c)
    BY <2>3 DEF Register, Goto, PCs
  <2> QED
    BY <1>2, <2>1, <2>2, <2>3
<1>3. ASSUME NEW c \in Conns, Announce(c) PROVE TypeOK'
  BY <1>3 DEF Announce, Goto, PCs
<1>4. ASSUME NEW c \in Conns, OnDisconnect(c) PROVE TypeOK'
  BY <1>4 DEF OnDisconnect, Goto, Pop, PCs
<1>5. ASSUME NEW c \in Conns, CooledDown(c) PROVE TypeOK'
  BY <1>5 DEF CooledDown, Unloaded, Goto, PCs
<1>6. ASSUME NEW c \in Conns, NEW e \in Engines, Loads(c, e) PROVE TypeOK'
  BY <1>6 DEF Loads
<1>7. ASSUME NEW c \in Conns, ShutdownCloses(c) PROVE TypeOK'
  BY <1>7 DEF ShutdownCloses, Unloaded
<1>8. CASE Shutdown
  BY <1>8 DEF Shutdown
<1>9. CASE ShutdownDone \/ UNCHANGED vars
  BY <1>9 DEF ShutdownDone, vars
<1> QED
  BY <1>1, <1>2, <1>3, <1>4, <1>5, <1>6, <1>7, <1>8, <1>9, NextCases

-----------------------------------------------------------------------------
(* The slots                                                               *)

\* A step that moves a connection without touching the dictionary.
LEMMA WaitsKeepSlots ==
  ASSUME SlotInv, NEW c \in Conns, Waits(c)
  PROVE  (SlotsAreReserved /\ OneSessionPerId /\ HandlerIsOwn /\ SlotIsHeld)'
<1> USE DEF SlotInv, TypeOK
<1>1. PICK from \in PCs, to \in PCs :
        /\ pc[c] = from /\ pc' = [pc EXCEPT ![c] = to]
        /\ <<from, to>> \in
             {<<"init", "closed">>, <<"init", "claim">>, <<"claim", "duplicate">>,
              <<"duplicate", "closed">>, <<"starting", "crashed">>,
              <<"warming", "ready">>, <<"warming", "failing">>,
              <<"registered", "running">>, <<"registered", "crashed">>,
              <<"running", "leaving">>}
        /\ UNCHANGED <<sid, active, handler, shut>>
  BY WaitsMove
<1>2. \A d \in Conns : /\ Holding(d)' => Holding(d)
                       /\ Holding(d) => Holding(d)' \/ pc'[d] = "crashed"
                       /\ pc[d] = "crashed" => pc'[d] = "crashed"
  BY <1>1 DEF Holding
<1>3. (SlotsAreReserved /\ OneSessionPerId)'
  BY <1>1, <1>2 DEF SlotsAreReserved, OneSessionPerId
<1>4. HandlerIsOwn'
  BY <1>1 DEF HandlerIsOwn
<1>5. SlotIsHeld'
  BY <1>1, <1>2 DEF SlotIsHeld
<1> QED
  BY <1>3, <1>4, <1>5

\* A step that reserves or fills a slot.
LEMMA ClaimsKeepSlots ==
  ASSUME SlotInv, NEW c \in Conns, ClaimSlot(c) \/ Register(c)
  PROVE  (SlotsAreReserved /\ OneSessionPerId /\ HandlerIsOwn /\ SlotIsHeld)'
<1> USE DEF SlotInv, TypeOK
<1>1. CASE ClaimSlot(c)
  <2>1. /\ pc[c] = "claim" /\ pc' = [pc EXCEPT ![c] = "starting"]
        /\ sid[c] \notin active /\ active' = active \cup {sid[c]}
        /\ UNCHANGED <<sid, handler, shut>>
    BY <1>1 DEF ClaimSlot, Goto
  <2>2. \A d \in Conns : Holding(d)' <=> Holding(d) \/ d = c
    BY <2>1 DEF Holding
  <2>3. (SlotsAreReserved /\ OneSessionPerId)'
    BY <2>1, <2>2 DEF SlotsAreReserved, OneSessionPerId
  <2>4. HandlerIsOwn'
    BY <2>1 DEF HandlerIsOwn
  <2>5. SlotIsHeld'
    BY <2>1, <2>2 DEF SlotIsHeld
  <2> QED
    BY <2>3, <2>4, <2>5
<1>2. CASE Register(c)
  <2>1. /\ pc[c] = "ready" /\ pc' = [pc EXCEPT ![c] = "registered"]
        /\ active' = active \cup {sid[c]}
        /\ handler' = [handler EXCEPT ![sid[c]] = c]
        /\ UNCHANGED <<sid, shut>>
    BY <1>2 DEF Register, Goto
  <2>2. \A d \in Conns : Holding(d)' <=> Holding(d)
    BY <2>1 DEF Holding
  <2>3. (SlotsAreReserved /\ OneSessionPerId)'
    BY <2>1, <2>2 DEF SlotsAreReserved, OneSessionPerId
  <2>4. HandlerIsOwn'
    BY <2>1 DEF HandlerIsOwn
  <2>5. SlotIsHeld'
    BY <2>1, <2>2 DEF SlotIsHeld, Holding
  <2> QED
    BY <2>3, <2>4, <2>5
<1> QED
  BY <1>1, <1>2

\* A step that pops the slot of a connection that is done with it: nobody else
\* is under way with that session while the server is up.
LEMMA PopsKeepSlots ==
  ASSUME SlotInv, NEW c \in Conns, GiveUp(c) \/ OnDisconnect(c)
  PROVE  (SlotsAreReserved /\ OneSessionPerId /\ HandlerIsOwn /\ SlotIsHeld)'
<1> USE DEF SlotInv, TypeOK
<1>1. /\ pc[c] \in {"failing", "leaving"}
      /\ pc' \in {[pc EXCEPT ![c] = "closed"], [pc EXCEPT ![c] = "cooling"]}
      /\ active' = active \ {sid[c]}
      /\ handler' = [handler EXCEPT ![sid[c]] = NoConn]
      /\ UNCHANGED <<sid, shut>>
  BY DEF GiveUp, OnDisconnect, Goto, Pop
<1>2. \A d \in Conns : Holding(d)' <=> Holding(d) /\ d # c
  BY <1>1 DEF Holding
<1>3. Holding(c)
  BY <1>1 DEF Holding
<1>4. (SlotsAreReserved /\ OneSessionPerId)'
  BY <1>1, <1>2, <1>3 DEF SlotsAreReserved, OneSessionPerId
<1>5. HandlerIsOwn'
  BY <1>1 DEF HandlerIsOwn
<1>6. SlotIsHeld'
  BY <1>1, <1>2 DEF SlotIsHeld
<1> QED
  BY <1>4, <1>5, <1>6

\* Every step keeps SlotInv.
LEMMA SlotStep == SlotInv /\ [Next]_vars => SlotInv'
<1> SUFFICES ASSUME SlotInv, [Next]_vars PROVE SlotInv'
  OBVIOUS
<1>0. TypeOK'
  BY TypeStep DEF SlotInv
<1> DEFINE Parts == SlotsAreReserved /\ OneSessionPerId /\ HandlerIsOwn /\ SlotIsHeld
<1>1. ASSUME NEW c \in Conns, Waits(c) PROVE Parts'
  BY <1>1, WaitsKeepSlots
<1>2. ASSUME NEW c \in Conns, ClaimSlot(c) \/ Register(c) PROVE Parts'
  BY <1>2, ClaimsKeepSlots
<1>3. ASSUME NEW c \in Conns, GiveUp(c) \/ OnDisconnect(c) PROVE Parts'
  BY <1>3, PopsKeepSlots
<1>4. ASSUME NEW c \in Conns, Announce(c) \/ CooledDown(c) PROVE Parts'
  <2>1. /\ <<pc[c], pc'>> \in {<<"starting", [pc EXCEPT ![c] = "warming"]>>,
                              <<"cooling", [pc EXCEPT ![c] = "closed"]>>}
        /\ UNCHANGED <<sid, active, handler, shut>>
    BY <1>4 DEF Announce, CooledDown, Goto
  <2>2. \A d \in Conns : /\ Holding(d)' <=> Holding(d)
                         /\ pc[d] = "crashed" => pc'[d] = "crashed"
    BY <2>1 DEF Holding, SlotInv, TypeOK
  <2>3. HandlerIsOwn'
    BY <2>1 DEF HandlerIsOwn, SlotInv, TypeOK
  <2>4. (SlotsAreReserved /\ OneSessionPerId /\ SlotIsHeld)'
    BY <2>1, <2>2 DEF SlotsAreReserved, OneSessionPerId, SlotIsHeld, SlotInv
  <2> QED
    BY <2>3, <2>4
<1>5. ASSUME Shutdown PROVE Parts'
  <2>1. /\ shut' = "closing" /\ active' = {} /\ handler' = [s \in Sids |-> NoConn]
    BY <1>5 DEF Shutdown
  <2> QED
    BY <2>1 DEF SlotsAreReserved, OneSessionPerId, HandlerIsOwn, SlotIsHeld
<1>6. ASSUME \/ \E c \in Conns : (\E e \in Engines : Loads(c, e)) \/ ShutdownCloses(c)
             \/ ShutdownDone \/ UNCHANGED vars
      PROVE  Parts'
  <2>1. /\ UNCHANGED <<pc, sid, active, handler>>
        /\ shut' = shut \/ shut' = "done"
    BY <1>6 DEF Loads, ShutdownCloses, ShutdownDone, vars
  <2> QED
    BY <2>1 DEF SlotInv, SlotsAreReserved, OneSessionPerId, HandlerIsOwn,
                SlotIsHeld, Holding
<1>7. Parts'
  BY <1>1, <1>2, <1>3, <1>4, <1>5, <1>6, NextCases
<1> QED
  BY <1>0, <1>7 DEF SlotInv

-----------------------------------------------------------------------------
(* The closes                                                              *)

\* Every step keeps CloseInv.
LEMMA CloseStep == CloseInv /\ [Next]_vars => CloseInv'
<1> SUFFICES ASSUME CloseInv, [Next]_vars PROVE CloseInv'
  OBVIOUS
<1>0. SlotInv'
  BY SlotStep DEF CloseInv
<1>t. TypeOK /\ HandlerIsOwn
  BY DEF CloseInv, SlotInv
<1> DEFINE Listed == todo # {} => shut = "closing"
           Apart == \A c \in todo : handler[sid[c]] # c /\ pc[c] \notin Early
           Once == \A c \in Conns : closes[c] <= 1 /\ (Unclosed(c) => closes[c] = 0)
<1>p. Listed /\ Apart /\ Once
  BY DEF CloseInv
<1>1. ASSUME NEW c \in Conns,
             Waits(c) \/ ClaimSlot(c) \/ Announce(c) \/ CooledDown(c)
      PROVE  (Listed /\ Apart /\ Once)'
  <2>1. /\ UNCHANGED <<sid, handler, closes, shut, todo>>
        /\ \A d \in Conns : pc'[d] \in Early => pc[d] \in Early
    BY <1>1, <1>t, WaitsMove DEF ClaimSlot, Announce, CooledDown, Goto, TypeOK, Early
  <2>2. \A d \in Conns : Unclosed(d)' => Unclosed(d)
    BY <2>1 DEF Unclosed
  <2> QED
    BY <1>p, <1>t, <2>1, <2>2 DEF TypeOK
<1>2. ASSUME NEW c \in Conns, GiveUp(c)
      PROVE  (Listed /\ Apart /\ Once)'
  <2>1. /\ UNCHANGED <<sid, closes, shut, todo>>
        /\ handler' = [handler EXCEPT ![sid[c]] = NoConn]
        /\ \A d \in Conns : pc'[d] \in Early => pc[d] \in Early
    BY <1>2, <1>t DEF GiveUp, Pop, Goto, TypeOK, Early
  <2>2. \A d \in Conns : handler'[sid[d]] = d => handler[sid[d]] = d
    BY <2>1, <1>t, GatewayAssumption DEF TypeOK
  <2>3. \A d \in Conns : Unclosed(d)' => Unclosed(d)
    BY <2>1, <2>2 DEF Unclosed
  <2> QED
    BY <1>p, <1>t, <2>1, <2>2, <2>3 DEF TypeOK
<1>3. ASSUME NEW c \in Conns, Register(c)
      PROVE  (Listed /\ Apart /\ Once)'
  <2>1. /\ UNCHANGED <<sid, closes, shut, todo>> /\ pc[c] = "ready"
        /\ handler' = [handler EXCEPT ![sid[c]] = c]
        /\ \A d \in Conns : pc'[d] \in Early => pc[d] \in Early
    BY <1>3, <1>t DEF Register, Goto, TypeOK, Early
  <2>2. c \notin todo /\ Unclosed(c)
    BY <1>p, <2>1 DEF Early, Unclosed
  <2>3. \A d \in Conns : handler'[sid[d]] = d => d = c \/ handler[sid[d]] = d
    BY <2>1, <1>t DEF TypeOK
  <2>4. \A d \in Conns : Unclosed(d)' => Unclosed(d)
    BY <2>1, <2>2, <2>3 DEF Unclosed
  <2> QED
    BY <1>p, <1>t, <2>1, <2>2, <2>3, <2>4 DEF TypeOK
<1>4. ASSUME NEW c \in Conns, OnDisconnect(c)
      PROVE  (Listed /\ Apart /\ Once)'
  <2>0. PICK h : h = handler[sid[c]]
    OBVIOUS
  <2>1. /\ UNCHANGED <<sid, shut, todo>>
        /\ handler' = [handler EXCEPT ![sid[c]] = NoConn]
        /\ \A d \in Conns : pc'[d] \in Early => pc[d] \in Early
        /\ closes' = IF h = NoConn THEN closes ELSE [closes EXCEPT ![h] = @ + 1]
    BY <1>4, <1>t, <2>0 DEF OnDisconnect, Pop, Goto, TypeOK, Early
  <2>2. \A d \in Conns : handler'[sid[d]] = d => handler[sid[d]] = d
    BY <2>1, <1>t, GatewayAssumption DEF TypeOK
  <2>3. \A d \in Conns : Unclosed(d)' => Unclosed(d)
    BY <2>1, <2>2 DEF Unclosed
  <2>4. CASE h = NoConn
    BY <1>p, <1>t, <2>1, <2>2, <2>3, <2>4 DEF TypeOK
  <2>5. CASE h # NoConn
    <3>1. /\ h \in Conns /\ sid[h] = sid[c] /\ handler[sid[h]] = h
          /\ pc[h] \in {"registered", "running", "leaving", "crashed"}
      BY <1>t, <2>0, <2>5 DEF TypeOK, HandlerIsOwn
    <3>2. handler'[sid'[h]] # h /\ h \notin todo' /\ pc'[h] \notin Early
      BY <1>p, <1>t, <2>1, <3>1, GatewayAssumption DEF TypeOK, Early
    <3>3. ~Unclosed(h)' /\ Unclosed(h)
      BY <2>1, <3>1, <3>2 DEF Unclosed
    <3>4. closes[h] = 0 /\ closes' = [closes EXCEPT ![h] = @ + 1]
      BY <1>p, <2>1, <2>5, <3>1, <3>3
    <3>5. closes'[h] = 1 /\ \A d \in Conns \ {h} : closes'[d] = closes[d]
      BY <1>t, <3>1, <3>4 DEF TypeOK
    <3>6. Once'
      BY <1>p, <2>3, <3>3, <3>5
    <3>7. (Listed /\ Apart)'
      BY <1>p, <1>t, <2>1, <2>2 DEF TypeOK
    <3> QED
      BY <3>6, <3>7
  <2> QED
    BY <2>4, <2>5
<1>5. ASSUME NEW c \in Conns, ShutdownCloses(c)
      PROVE  (Listed /\ Apart /\ Once)'
  <2>1. /\ UNCHANGED <<pc, sid, handler, shut>> /\ shut = "closing" /\ c \in todo
        /\ todo' = todo \ {c} /\ closes' = [closes EXCEPT ![c] = @ + 1]
    BY <1>5 DEF ShutdownCloses
  <2>2. ~Unclosed(c)' /\ Unclosed(c)
    BY <1>p, <2>1 DEF Unclosed
  <2>3. \A d \in Conns : Unclosed(d)' => Unclosed(d)
    BY <2>1 DEF Unclosed
  <2> QED
    BY <1>p, <1>t, <2>1, <2>2, <2>3 DEF TypeOK
<1>6. ASSUME Shutdown PROVE (Listed /\ Apart /\ Once)'
  <2>1. /\ UNCHANGED <<pc, sid, closes>> /\ shut' = "closing"
        /\ todo' = {handler[s] : s \in active} \ {NoConn}
        /\ handler' = [s \in Sids |-> NoConn]
    BY <1>6 DEF Shutdown
  <2>2. \A d \in todo' : d \in Conns /\ handler[sid[d]] = d /\ pc[d] \notin Early
    BY <1>t, <2>1 DEF TypeOK, HandlerIsOwn, Early
  <2>3. \A d \in Conns : handler'[sid'[d]] # d
    BY <1>t, <2>1, GatewayAssumption DEF TypeOK
  <2>4. \A d \in Conns : Unclosed(d)' => Unclosed(d)
    BY <2>1, <2>2, <2>3 DEF Unclosed
  <2> QED
    BY <1>p, <1>t, <2>1, <2>2, <2>3, <2>4 DEF TypeOK
<1>7. ASSUME (\E c \in Conns : \E e \in Engines : Loads(c, e)) \/ UNCHANGED vars
      PROVE  (Listed /\ Apart /\ Once)'
  <2>1. UNCHANGED <<pc, sid, handler, closes, shut, todo>>
    BY <1>7 DEF Loads, vars
  <2> QED
    BY <1>p, <2>1 DEF Unclosed
<1>8. ASSUME ShutdownDone PROVE (Listed /\ Apart /\ Once)'
  BY <1>8, <1>p DEF ShutdownDone, Unclosed
<1>9. (Listed /\ Apart /\ Once)'
  BY <1>1, <1>2, <1>3, <1>4, <1>5, <1>6, <1>7, <1>8, NextCases
<1> QED
  BY <1>0, <1>9 DEF CloseInv

-----------------------------------------------------------------------------
(* The engines                                                             *)

\* Every step keeps WarmInv.
LEMMA WarmStep == WarmInv /\ [Next]_vars => WarmInv'
<1> SUFFICES ASSUME WarmInv, [Next]_vars PROVE WarmInv'
  OBVIOUS
<1>0. SlotInv'
  BY SlotStep DEF WarmInv
<1>t. TypeOK /\ HandlerIsOwn /\ OneSessionPerId
  BY DEF WarmInv, SlotInv
<1> DEFINE Warm(c) ==
             pc[c] \in {"ready", "registered", "running"} =>
               \A e \in Engines : load[c][e] = "yes"
           Cools(c) ==
             pc[c] = "cooling" => cooling[c] = c \/ pc[cooling[c]] = "crashed"
           CoolsOne == \A c \in Conns : pc[c] = "cooling" => cooling[c] \in Conns
           AllWarm == shut = "no" => \A c \in Conns : Warm(c) /\ Cools(c)
<1>p. CoolsOne /\ AllWarm
  BY DEF WarmInv
<1>1. ASSUME NEW c \in Conns, Waits(c) PROVE (CoolsOne /\ AllWarm)'
  <2>1. PICK from \in PCs, to \in PCs :
          /\ pc[c] = from /\ pc' = [pc EXCEPT ![c] = to]
          /\ from \notin {"cooling", "crashed"} /\ to # "cooling"
          /\ to \in {"registered", "running"} => from = "registered"
          /\ to = "ready" => \A e \in Engines : load[c][e] = "yes"
          /\ UNCHANGED <<load, cooling, shut>>
    BY <1>1, WaitsMove
  <2> QED
    BY <1>p, <1>t, <2>1 DEF TypeOK
<1>2. ASSUME NEW c \in Conns, ClaimSlot(c) \/ Announce(c) \/ GiveUp(c)
      PROVE  (CoolsOne /\ AllWarm)'
  <2>1. /\ pc[c] \in {"claim", "starting", "failing"}
        /\ pc' \in {[pc EXCEPT ![c] = "starting"], [pc EXCEPT ![c] = "warming"],
                    [pc EXCEPT ![c] = "closed"]}
        /\ UNCHANGED <<cooling, shut>>
        /\ \A d \in Conns \ {c} : load'[d] = load[d]
    BY <1>2, <1>t DEF ClaimSlot, Announce, GiveUp, Goto, TypeOK
  <2> QED
    BY <1>p, <1>t, <2>1 DEF TypeOK
<1>3. ASSUME NEW c \in Conns, Register(c) PROVE (CoolsOne /\ AllWarm)'
  <2>1. /\ pc[c] = "ready" /\ pc' = [pc EXCEPT ![c] = "registered"]
        /\ UNCHANGED <<load, cooling, shut>>
    BY <1>3 DEF Register, Goto
  <2> QED
    BY <1>p, <1>t, <2>1 DEF TypeOK
<1>4. ASSUME NEW c \in Conns, OnDisconnect(c) PROVE (CoolsOne /\ AllWarm)'
  <2> DEFINE h == handler[sid[c]]
  <2>1. /\ pc[c] = "leaving"
        /\ pc' = [pc EXCEPT ![c] = IF h = NoConn THEN "closed" ELSE "cooling"]
        /\ cooling' = [cooling EXCEPT ![c] = h]
        /\ UNCHANGED <<load, shut>>
    BY <1>4 DEF OnDisconnect, Goto
  <2>2. h # NoConn =>
          /\ h \in Conns /\ sid[h] = sid[c]
          /\ pc[h] \in {"registered", "running", "leaving", "crashed"}
    BY <1>t DEF TypeOK, HandlerIsOwn
  <2>3. shut = "no" /\ h # NoConn => h = c \/ pc[h] = "crashed"
    BY <1>t, <2>1, <2>2 DEF OneSessionPerId, Holding
  <2>4. CoolsOne'
    BY <1>p, <1>t, <2>1, <2>2 DEF TypeOK
  <2>5. shut' = "no" => \A d \in Conns : Warm(d)'
    BY <1>p, <1>t, <2>1 DEF TypeOK
  <2>6. shut' = "no" => \A d \in Conns : Cools(d)'
    <3> SUFFICES ASSUME shut = "no", NEW d \in Conns, pc'[d] = "cooling"
                 PROVE  cooling'[d] = d \/ pc'[cooling'[d]] = "crashed"
      BY <2>1
    <3>1. CASE d = c
      <4>1. cooling'[d] = h /\ h # NoConn
        BY <1>t, <2>1, <3>1 DEF TypeOK
      <4>2. h # c => pc'[h] = "crashed"
        BY <1>t, <2>1, <2>2, <2>3, <4>1 DEF TypeOK
      <4> QED
        BY <3>1, <4>1, <4>2
    <3>2. CASE d # c
      <4>1. cooling'[d] = cooling[d] /\ pc[d] = "cooling"
        BY <1>t, <2>1, <3>2 DEF TypeOK
      <4>2. cooling[d] \in Conns /\ (cooling[d] = d \/ pc[cooling[d]] = "crashed")
        BY <1>p, <4>1
      <4> QED
        BY <1>t, <2>1, <4>1, <4>2 DEF TypeOK
    <3> QED
      BY <3>1, <3>2
  <2> QED
    BY <2>4, <2>5, <2>6
<1>5. ASSUME NEW c \in Conns, CooledDown(c) PROVE (CoolsOne /\ AllWarm)'
  <2> DEFINE h == cooling[c]
  <2>1. /\ pc[c] = "cooling" /\ pc' = [pc EXCEPT ![c] = "closed"]
        /\ load' = [load EXCEPT ![h] = Unloaded(h)]
        /\ cooling' = [cooling EXCEPT ![c] = NoConn]
        /\ UNCHANGED shut
    BY <1>5 DEF CooledDown, Goto
  <2>2. \A d \in Conns : d # h => load'[d] = load[d]
    BY <1>t, <2>1 DEF TypeOK
  <2>3. shut = "no" => h = c \/ pc[h] = "crashed"
    BY <1>p, <2>1
  <2>4. h \in Conns
    BY <1>p, <2>1
  <2>5. shut' = "no" => \A d \in Conns : Warm(d)'
    BY <1>p, <1>t, <2>1, <2>2, <2>3, <2>4 DEF TypeOK
  <2>6. CoolsOne' /\ (shut' = "no" => \A d \in Conns : Cools(d)')
    BY <1>p, <1>t, <2>1 DEF TypeOK
  <2> QED
    BY <2>5, <2>6
<1>6. ASSUME NEW c \in Conns, NEW e \in Engines, Loads(c, e)
      PROVE  (CoolsOne /\ AllWarm)'
  <2>1. /\ load[c][e] = "loading" /\ UNCHANGED <<pc, cooling, shut>>
        /\ \A d \in Conns \ {c} : load'[d] = load[d]
    BY <1>6, <1>t DEF Loads, TypeOK
  <2>2. shut = "no" => pc[c] \notin {"ready", "registered", "running"}
    BY <1>p, <2>1
  <2> QED
    BY <1>p, <2>1, <2>2
<1>7. ASSUME \/ \E c \in Conns : ShutdownCloses(c)
             \/ Shutdown \/ ShutdownDone \/ UNCHANGED vars
      PROVE  (CoolsOne /\ AllWarm)'
  <2>1. /\ UNCHANGED <<pc, cooling>>
        /\ shut' \in {"closing", "done"} \/ UNCHANGED <<load, shut>>
    BY <1>7 DEF ShutdownCloses, Shutdown, ShutdownDone, vars
  <2> QED
    BY <1>p, <2>1
<1>8. (CoolsOne /\ AllWarm)'
  BY <1>1, <1>2, <1>3, <1>4, <1>5, <1>6, <1>7, NextCases
<1> QED
  BY <1>0, <1>8 DEF WarmInv

-----------------------------------------------------------------------------
(* Theorems                                                                *)

\* Every variable has its type.
THEOREM TypeCorrect == Spec => []TypeOK
<1>1. Init => TypeOK
  BY InitInv DEF CloseInv, SlotInv
<1> QED
  BY <1>1, TypeStep, PTL DEF Spec

\* Two connections never run one session before the server shuts down: the check
\* for a duplicate, the reservation and both clean-ups hold together.
THEOREM NoTwoRunOneSession == Spec => []OneSessionPerId
<1>1. SlotInv => OneSessionPerId
  BY DEF SlotInv
<1>2. Init => SlotInv
  BY InitInv DEF CloseInv
<1> QED
  BY <1>1, <1>2, SlotStep, PTL DEF Spec

\* on_disconnect finds in the dictionary only a handler of its own session, before
\* and after a shutdown.
THEOREM DictionaryIsOwn == Spec => []HandlerIsOwn
<1>1. SlotInv => HandlerIsOwn
  BY DEF SlotInv
<1>2. Init => SlotInv
  BY InitInv DEF CloseInv
<1> QED
  BY <1>1, <1>2, SlotStep, PTL DEF Spec

\* No slot is left behind, except by a connection that crashed while it held it.
THEOREM NoSlotLeftBehind == Spec => []SlotIsHeld
<1>1. SlotInv => SlotIsHeld
  BY DEF SlotInv
<1>2. Init => SlotInv
  BY InitInv DEF CloseInv
<1> QED
  BY <1>1, <1>2, SlotStep, PTL DEF Spec

\* No handler is closed twice, though its own connection, another one with the same
\* session_id and the shutdown may all close it.
THEOREM NoHandlerClosedTwice == Spec => []ClosedOnce
<1>1. CloseInv => ClosedOnce
  BY DEF CloseInv, ClosedOnce
<1>2. Init => CloseInv
  BY InitInv
<1> QED
  BY <1>1, <1>2, CloseStep, PTL DEF Spec

\* A session runs with all its engines loaded, until the server shuts down.
THEOREM RunsWithItsEngines == Spec => []RunningIsWarm
<1>1. WarmInv => RunningIsWarm
  BY DEF WarmInv, RunningIsWarm
<1>2. Init => WarmInv
  BY InitInv
<1> QED
  BY <1>1, <1>2, WarmStep, PTL DEF Spec
=============================================================================
