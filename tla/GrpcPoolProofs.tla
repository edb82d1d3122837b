--------------------------- MODULE GrpcPoolProofs ---------------------------
(* Proofs about GrpcPool, for any callers and connections.                 *)
EXTENDS GrpcPool, TLAPS

(* What somebody refers to is not forgotten.                               *)
Held == \A c \in Conn : ~Unused(c) => state[c] # "none"

(* A connection that a caller is about to store is its own: nobody could   *)
(* have closed it.                                                         *)
Fresh ==
    \A g \in Caller : pc[g] = "store" =>
        /\ state[mine[g]] # "closed"
        /\ mine[g] # pool /\ mine[g] # victim
        /\ \A h \in Caller \ {g} : mine[h] # mine[g]

IInv == TypeOK /\ Held /\ Fresh /\ ClosedIsRemoved

----------------------------------------------------------------------------
LEMMA InitIInv == Init => IInv
BY PoolAssumption DEF Init, IInv, TypeOK, Place, State, Held, Unused, Fresh,
   ClosedIsRemoved

(* Forget touches nothing that is referred to.                             *)
LEMMA ForgetKeeps ==
    ASSUME TypeOK, Forget
    PROVE  /\ state' \in [Conn -> State]
           /\ \A c \in Conn : ~Unused(c)' => state'[c] = state[c]
           /\ \A c \in Conn : state'[c] = state[c] \/ state'[c] = "none"
BY DEF TypeOK, Forget, State

LEMMA TypeStep == TypeOK /\ [Next]_vars => TypeOK'
<1> SUFFICES ASSUME TypeOK, [Next]_vars PROVE TypeOK'
  OBVIOUS
<1>0. up' \in BOOLEAN
  <2>1. up' = up \/ up' = ~up
    BY DEF Next, Step, Quit, Transport, Load, CheckState, CloseConn, Delete,
       NewClient, Store, Wake, CallReturns, CallFails, Resume, CloseAll,
       CloseVictim, DeleteVictim, Connect, ConnectFails, Backoff, Disconnect,
       Become, TurnPeer, vars
  <2>2. up \in BOOLEAN
    BY DEF TypeOK
  <2> QED BY <2>1, <2>2
<1> DEFINE Rest ==
    /\ state \in [Conn -> State]
    /\ pool \in Conn \cup {NoConn}
    /\ pc \in [Caller -> Place]
    /\ mine \in [Caller -> Conn \cup {NoConn}]
    /\ \A g \in Caller : (mine[g] = NoConn) <=> (pc[g] \in {"out", "dial", "failed"})
    /\ quit \in {"no", "close", "delete", "done"}
    /\ victim \in Conn \cup {NoConn}
    /\ (victim = NoConn) <=> (quit \in {"no", "done"})
<1>a. Rest
  BY DEF TypeOK
<1> SUFFICES Rest'
  BY <1>0 DEF TypeOK
<1>1. ASSUME NEW g \in Caller, Step(g) PROVE Rest'
  <2> USE PoolAssumption DEF Goto, Place
  <2>1. CASE Load(g)
    BY <1>a, <2>1 DEF Load, Found
  <2>2. CASE CheckState(g)
    BY <1>a, <2>2 DEF CheckState
  <2>3. CASE CloseConn(g)
    BY <1>a, <2>3 DEF CloseConn, State
  <2>4. CASE Delete(g)
    BY <1>a, <2>4, ForgetKeeps DEF Delete, AfterDelete
  <2>5. CASE NewClient(g)
    BY <1>a, <2>5 DEF NewClient, State
  <2>6. CASE Store(g)
    BY <1>a, <2>6, ForgetKeeps DEF Store
  <2>7. CASE Wake(g)
    BY <1>a, <2>7 DEF Wake, State
  <2>8. CASE CallReturns(g) \/ CallFails(g)
    BY <1>a, <2>8, ForgetKeeps DEF CallReturns, CallFails
  <2>9. CASE Resume(g)
    BY <1>a, <2>9 DEF Resume
  <2> QED BY <1>1, <2>1, <2>2, <2>3, <2>4, <2>5, <2>6, <2>7, <2>8, <2>9 DEF Step
<1>2. CASE Quit
  BY <1>a, <1>2, ForgetKeeps, PoolAssumption DEF Quit, CloseAll, CloseVictim,
     DeleteVictim, AfterDelete, State
<1>3. ASSUME NEW c \in Conn, Transport(c) PROVE Rest'
  BY <1>a, <1>3 DEF Transport, Connect, ConnectFails, Backoff, Disconnect, Become,
     State
<1>4. CASE TurnPeer \/ UNCHANGED vars
  BY <1>a, <1>4 DEF TurnPeer, vars
<1> QED BY <1>1, <1>2, <1>3, <1>4 DEF Next

(* The steps of a caller.                                                  *)
LEMMA CallerIInv ==
    ASSUME IInv, NEW g \in Caller, Step(g)
    PROVE  Held' /\ Fresh' /\ ClosedIsRemoved'
<1> USE PoolAssumption DEF IInv, TypeOK, Goto, Held, Unused, Fresh, ClosedIsRemoved
<1>1. CASE Load(g)
  BY <1>1 DEF Load, Found
<1>2. CASE CheckState(g)
  BY <1>2 DEF CheckState
<1>3. CASE CloseConn(g)
  BY <1>3 DEF CloseConn
<1>4. CASE Delete(g)
  BY <1>4, ForgetKeeps DEF Delete, AfterDelete
<1>5. CASE NewClient(g)
  BY <1>5 DEF NewClient
<1>6. CASE Store(g)
  BY <1>6, ForgetKeeps DEF Store
<1>7. CASE Wake(g)
  BY <1>7 DEF Wake
<1>8. CASE CallReturns(g) \/ CallFails(g)
  BY <1>8, ForgetKeeps DEF CallReturns, CallFails
<1>9. CASE Resume(g)
  BY <1>9 DEF Resume
<1> QED BY <1>1, <1>2, <1>3, <1>4, <1>5, <1>6, <1>7, <1>8, <1>9 DEF Step

(* The end of the process, the transport and the peer.                     *)
LEMMA OthersIInv ==
    ASSUME IInv, Quit \/ (\E c \in Conn : Transport(c)) \/ TurnPeer \/ UNCHANGED vars
    PROVE  Held' /\ Fresh' /\ ClosedIsRemoved'
<1> USE PoolAssumption DEF IInv, TypeOK, Held, Unused, Fresh, ClosedIsRemoved
<1>1. CASE CloseAll
  BY <1>1 DEF CloseAll
<1>2. CASE CloseVictim
  BY <1>2 DEF CloseVictim
<1>3. CASE DeleteVictim
  BY <1>3, ForgetKeeps DEF DeleteVictim, AfterDelete
<1>4. ASSUME NEW c \in Conn, Transport(c) PROVE Held' /\ Fresh' /\ ClosedIsRemoved'
  BY <1>4 DEF Transport, Connect, ConnectFails, Backoff, Disconnect, Become
<1>5. CASE TurnPeer \/ UNCHANGED vars
  BY <1>5 DEF TurnPeer, vars
<1> QED BY <1>1, <1>2, <1>3, <1>4, <1>5 DEF Quit

LEMMA StepIInv == IInv /\ [Next]_vars => IInv'
BY TypeStep, CallerIInv, OthersIInv DEF IInv, Next

----------------------------------------------------------------------------
(* GetGrpcConnection and CloseAllGrpcConnections: the pool and the hands   *)
(* of the callers keep their types; who has no connection is not in a      *)
(* place where one is used.                                                *)
THEOREM TypeCorrect == Spec => []TypeOK
<1>1. IInv => TypeOK
  BY DEF IInv
<1> QED BY <1>1, InitIInv, StepIInv, PTL DEF Spec

(* GetGrpcConnection's close, delete and store between its callers: a      *)
(* closed connection does not stay in the pool.                            *)
THEOREM ClosedRemoved == Spec => []ClosedIsRemoved
<1>1. IInv => ClosedIsRemoved
  BY DEF IInv
<1> QED BY <1>1, InitIInv, StepIInv, PTL DEF Spec
=============================================================================
