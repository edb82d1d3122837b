------------------------------ MODULE GrpcPool ------------------------------
(***************************************************************************)
(* GetGrpcConnection: the connections of one process to one other node,    *)
(* kept in a sync.Map that each access locks on its own.  The workers of   *)
(* an upload, downloads and deletions call it at the same time, each of    *)
(* them for one remote call; the end of the process closes what the pool   *)
(* holds.  Several addresses are several copies of this module.            *)
(*                                                                         *)
(* The address is one that parses.  For one that does not, each call that  *)
(* gets past Load returns an error before NewClient, and as the same text  *)
(* never parses, the pool never has a connection to it.                    *)
(*                                                                         *)
(* A grpc.ClientConn reconnects on its own.  A call on it waits while it   *)
(* connects and fails when it has failed or is closed.                     *)
(***************************************************************************)
EXTENDS Integers, FiniteSets

CONSTANTS
    Caller,   \* the goroutines that call the node
    Conn,     \* connections that exist at the same time
    NoConn    \* "no connection"

ASSUME PoolAssumption == NoConn \notin Conn

VARIABLES
    up,      \* the node can be reached
    state,   \* state[c]: connectivity.State of c, or "none" when nobody has c
    pool,    \* the pool's connection to the node
    pc,      \* pc[g]: where g stands in GetGrpcConnection and in its call
    mine,    \* mine[g]: the connection in g's hands
    quit,    \* where CloseAllGrpcConnections stands
    victim   \* the connection it has in its hands

vars == <<up, state, pool, pc, mine, quit, victim>>

State == {"none", "idle", "connecting", "ready", "failed", "closed"}
Place == {"out", "check", "close", "delete", "dial", "store", "call", "failed"}

TypeOK ==
    /\ up \in BOOLEAN
    /\ state \in [Conn -> State]
    /\ pool \in Conn \cup {NoConn}
    /\ pc \in [Caller -> Place]
    /\ mine \in [Caller -> Conn \cup {NoConn}]
    /\ \A g \in Caller : (mine[g] = NoConn) <=> (pc[g] \in {"out", "dial", "failed"})
    /\ quit \in {"no", "close", "delete", "done"}
    /\ victim \in Conn \cup {NoConn}
    /\ (victim = NoConn) <=> (quit \in {"no", "done"})

Init ==
    /\ up \in BOOLEAN
    /\ state = [c \in Conn |-> "none"]
    /\ pool = NoConn
    /\ pc = [g \in Caller |-> "out"]
    /\ mine = [g \in Caller |-> NoConn]
    /\ quit = "no"
    /\ victim = NoConn

----------------------------------------------------------------------------
(* GetGrpcConnection and the call.                                         *)

Unused(c) == c # pool /\ c # victim /\ \A g \in Caller : mine[g] # c

\* A connection that nobody refers to any more is forgotten, closed or not.
Forget == state' = [c \in Conn |-> IF Unused(c)' THEN "none" ELSE state[c]]

Goto(g, from, to) ==
    /\ pc[g] = from
    /\ pc' = [pc EXCEPT ![g] = to]

\* ok, of grpcPool.Load(nodeAddress)
FoundAlways == TRUE
Found == pool # NoConn

Load(g) ==
    /\ Goto(g, "out", IF Found THEN "check" ELSE "dial")
    /\ mine' = [mine EXCEPT ![g] = pool]
    /\ UNCHANGED <<up, state, pool, quit, victim>>

UsableInverted(c) == state[c] \in {"closed", "failed"}
Usable(c) == state[c] \notin {"closed", "failed"}

CheckState(g) ==
    /\ Goto(g, "check", IF Usable(mine[g]) THEN "call" ELSE "close")
    /\ UNCHANGED <<up, state, pool, mine, quit, victim>>

CloseConn(g) ==
    /\ Goto(g, "close", "delete")
    /\ state' = [state EXCEPT ![mine[g]] = "closed"]
    /\ UNCHANGED <<up, pool, mine, quit, victim>>

\* grpcPool.Delete(nodeAddress), whatever the pool holds by now.
AfterDeleteNothing == pool
AfterDelete == NoConn

Delete(g) ==
    /\ Goto(g, "delete", "dial")
    /\ pool' = AfterDelete
    /\ mine' = [mine EXCEPT ![g] = NoConn]
    /\ UNCHANGED <<up, quit, victim>>
    /\ Forget

NewClient(g) ==
    /\ Goto(g, "dial", "store")
    /\ \E c \in Conn :
        /\ state[c] = "none"
        /\ mine' = [mine EXCEPT ![g] = c]
        /\ state' = [state EXCEPT ![c] = "idle"]
    /\ UNCHANGED <<up, pool, quit, victim>>

Store(g) ==
    /\ Goto(g, "store", "call")
    /\ pool' = mine[g]
    /\ UNCHANGED <<up, mine, quit, victim>>
    /\ Forget

\* A call on an idle connection makes it connect.
Wake(g) ==
    /\ pc[g] = "call"
    /\ state[mine[g]] = "idle"
    /\ state' = [state EXCEPT ![mine[g]] = "connecting"]
    /\ UNCHANGED <<up, pool, pc, mine, quit, victim>>

CallReturns(g) ==
    /\ Goto(g, "call", "out")
    /\ up /\ state[mine[g]] = "ready"
    /\ mine' = [mine EXCEPT ![g] = NoConn]
    /\ UNCHANGED <<up, pool, quit, victim>>
    /\ Forget

\* Unavailable, or canceled by Close.
CallFails(g) ==
    /\ Goto(g, "call", "failed")
    /\ state[mine[g]] \in {"failed", "closed"}
    /\ mine' = [mine EXCEPT ![g] = NoConn]
    /\ UNCHANGED <<up, pool, quit, victim>>
    /\ Forget

\* The caller goes on to its next node or chunk.
Resume(g) ==
    /\ Goto(g, "failed", "out")
    /\ UNCHANGED <<up, state, pool, mine, quit, victim>>

Step(g) ==
    \/ Load(g) \/ CheckState(g) \/ CloseConn(g) \/ Delete(g)
    \/ NewClient(g) \/ Store(g)
    \/ Wake(g) \/ CallReturns(g) \/ CallFails(g) \/ Resume(g)

----------------------------------------------------------------------------
(* CloseAllGrpcConnections at the end of the process, while goroutines of  *)
(* uploads and deletions still run: Range comes to the address once.       *)

CloseAll ==
    /\ quit = "no"
    /\ quit' = IF pool = NoConn THEN "done" ELSE "close"
    /\ victim' = pool
    /\ UNCHANGED <<up, state, pool, pc, mine>>

CloseVictim ==
    /\ quit = "close"
    /\ quit' = "delete"
    /\ state' = [state EXCEPT ![victim] = "closed"]
    /\ UNCHANGED <<up, pool, pc, mine, victim>>

DeleteVictim ==
    /\ quit = "delete"
    /\ quit' = "done"
    /\ pool' = AfterDelete
    /\ victim' = NoConn
    /\ UNCHANGED <<up, pc, mine>>
    /\ Forget

Quit == CloseAll \/ CloseVictim \/ DeleteVictim

----------------------------------------------------------------------------
(* The transport, and the node at its other end.                           *)

Become(c, from, to) ==
    /\ state[c] \in from
    /\ state' = [state EXCEPT ![c] = to]
    /\ UNCHANGED <<up, pool, pc, mine, quit, victim>>

Connect(c) == up /\ Become(c, {"connecting"}, "ready")
ConnectFails(c) == ~up /\ Become(c, {"connecting"}, "failed")
Backoff(c) == Become(c, {"failed"}, "connecting")
Disconnect(c) == ~up /\ Become(c, {"ready"}, "idle")

Transport(c) ==
    Connect(c) \/ ConnectFails(c) \/ Backoff(c) \/ Disconnect(c)

TurnPeer ==
    /\ up' = ~up
    /\ UNCHANGED <<state, pool, pc, mine, quit, victim>>

Next ==
    \/ \E g \in Caller : Step(g)
    \/ Quit
    \/ \E c \in Conn : Transport(c)
    \/ TurnPeer

Spec == Init /\ [][Next]_vars

\* Goroutines run, and connections connect, fail and back off in their time.
FairSpec ==
    /\ Spec
    /\ \A g \in Caller : WF_vars(Step(g))
    /\ \A c \in Conn : WF_vars(Transport(c))

----------------------------------------------------------------------------
(* Properties.                                                             *)

\* A closed connection does not stay in the pool: whoever closed it is on
\* the way to delete it, though others replace the entry meanwhile.
ClosedIsRemoved ==
    (pool # NoConn /\ state[pool] = "closed") =>
        \/ \E g \in Caller : pc[g] = "delete" /\ mine[g] = pool
        \/ quit = "delete" /\ victim = pool

\* When the node can be reached again, calls fail no more after a while: the
\* races of the callers that replace the failed connection come to an end.
CallsRecover == <>[]up => <>[](\A g \in Caller : pc[g] # "failed")

\* Before the process ends nobody closes a connection under a call that it
\* carries: a caller closes only what it has found failed.
NoCallCutOff ==
    [][\A g \in Caller :
        (pc[g] = "call" /\ state[mine[g]] = "ready" /\ quit = "no") =>
            state'[mine[g]] # "closed"]_vars

\* No open connection is forgotten: until it is closed the pool has it, for
\* CloseAllGrpcConnections, or a caller does.
NoneLost == [][\A c \in Conn :
    state[c] \in {"idle", "connecting", "ready"} => state'[c] # "none"]_vars
=============================================================================
