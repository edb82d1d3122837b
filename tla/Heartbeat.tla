----------------------------- MODULE Heartbeat -----------------------------
(***************************************************************************)
(* The registry of active nodes of one bootstrap server, and the storage   *)
(* nodes that keep themselves in it.                                       *)
(*                                                                         *)
(* A storage node runs an endless loop (k-node/main.go, the subscription   *)
(* goroutine): it posts a subscription, sleeps BeatSleep after a success   *)
(* and RetrySleep after an error.  The HTTP client gives a post up after   *)
(* HttpTimeout.  The bootstrap server stamps the record of a node with its *)
(* own clock whenever it handles a subscription (SubsribeNode), and every  *)
(* ScanPeriod it removes the records older than Limit (CleanInactiveNodes).*)
(* A scan reads all the records first and then deletes them one by one.    *)
(*                                                                         *)
(* Time is discrete.  Instead of a clock and a timestamp per record the    *)
(* model keeps the age of the record (NoRecord when there is none), and    *)
(* instead of wake-up times the time each node has spent in its phase.     *)
(* Time does not pass over the end of a sleep, the client's timeout or a   *)
(* due scan: those happen first.  Reliable nodes are those that keep       *)
(* running and whose every post is answered within HttpTimeout.            *)
(***************************************************************************)
EXTENDS Integers

CONSTANTS
    Node,         \* the storage nodes
    Reliable,     \* those that never stop and whose posts never fail
    HttpTimeout,  \* config.HttpClient: 30 s
    BeatSleep,    \* sleep after a successful subscription: 1 min
    RetrySleep,   \* sleep after a failed one: 5 s
    Limit,        \* a record older than this is removed: 2 min
    ScanPeriod    \* CleanInactiveNodes' ticker: 1 min

ASSUME PeriodAssumption ==
    /\ Reliable \subseteq Node
    /\ HttpTimeout \in Nat \ {0}
    /\ BeatSleep \in Nat \ {0}
    /\ RetrySleep \in Nat \ {0}
    /\ Limit \in Nat \ {0}
    /\ ScanPeriod \in Nat \ {0}

\* Between two records of a node lie at most: the rest of the post that wrote
\* the first one, a sleep, and the whole of the post that writes the second.
\* The code meets this with equality: 30 s + 60 s + 30 s = 2 min.
ASSUME BeatAssumption == 2 * HttpTimeout + BeatSleep <= Limit

NoRecord == -1

VARIABLES
    phase,   \* phase[n]: where the subscription loop of n stands
    timer,   \* timer[n]: time n has spent in its post or in its sleep
    late,    \* late[n]: a post that n gave up can still reach the server
    age,     \* age[n]: age of n's record in "active_nodes", or NoRecord
    scanIn,  \* time until the ticker of CleanInactiveNodes fires
    stale    \* the nodes the running scan has still to delete

vars == <<phase, timer, late, age, scanIn, stale>>

Phase == {"off", "post", "reply", "rest", "retry"}

TypeOK ==
    /\ phase \in [Node -> Phase]
    /\ timer \in [Node -> Nat]
    /\ late \in [Node -> BOOLEAN]
    /\ age \in [Node -> Nat \cup {NoRecord}]
    /\ scanIn \in 0..ScanPeriod
    /\ stale \subseteq Node

Init ==
    /\ phase = [n \in Node |-> "off"]
    /\ timer = [n \in Node |-> 0]
    /\ late = [n \in Node |-> FALSE]
    /\ age = [n \in Node |-> NoRecord]
    /\ scanIn = ScanPeriod
    /\ stale = {}

----------------------------------------------------------------------------
(* Storage nodes: the subscription loop of cmd/k-node and SubscribeNode.   *)

Enter(n, p) ==
    /\ phase' = [phase EXCEPT ![n] = p]
    /\ timer' = [timer EXCEPT ![n] = 0]

\* What happens to a post that its sender no longer waits for: nothing more,
\* or, if it was not handled yet, the server can still handle it.
LeavePost(n) ==
    \/ UNCHANGED late
    \/ phase[n] = "post" /\ late' = [late EXCEPT ![n] = TRUE]

\* The process starts, or starts again after a stop: it subscribes at once.
Start(n) ==
    /\ phase[n] = "off"
    /\ Enter(n, "post")
    /\ UNCHANGED <<late, age, scanIn, stale>>

\* The process ends.  A post on the wire can still be handled.
Stop(n) ==
    /\ n \notin Reliable
    /\ phase[n] # "off"
    /\ Enter(n, "off")
    /\ LeavePost(n)
    /\ UNCHANGED <<age, scanIn, stale>>

\* SubsribeNode on the bootstrap server: the record is (over)written with
\* the present time.
Handle(n) ==
    /\ phase[n] = "post"
    /\ phase' = [phase EXCEPT ![n] = "reply"]
    /\ age' = [age EXCEPT ![n] = 0]
    /\ UNCHANGED <<timer, late, scanIn, stale>>

\* The same handler, for a post whose sender no longer waits.
HandleLate(n) ==
    /\ late[n]
    /\ late' = [late EXCEPT ![n] = FALSE]
    /\ age' = [age EXCEPT ![n] = 0]
    /\ UNCHANGED <<phase, timer, scanIn, stale>>

\* SubscribeNode returns nil: status 200.
Answer(n) ==
    /\ phase[n] = "reply"
    /\ Enter(n, "rest")
    /\ UNCHANGED <<late, age, scanIn, stale>>

\* SubscribeNode returns an error: the request could not be signed or sent,
\* the answer was lost or came after HttpTimeout.
Fail(n) ==
    /\ n \notin Reliable
    /\ phase[n] \in {"post", "reply"}
    /\ Enter(n, "retry")
    /\ LeavePost(n)
    /\ UNCHANGED <<age, scanIn, stale>>

\* The longest time a node stays in a phase.
Deadline(p) ==
    CASE p = "rest"  -> BeatSleep
      [] p = "retry" -> RetrySleep
      [] OTHER       -> HttpTimeout

WakeUp(n) ==
    /\ phase[n] \in {"rest", "retry"}
    /\ timer[n] >= Deadline(phase[n])
    /\ Enter(n, "post")
    /\ UNCHANGED <<late, age, scanIn, stale>>

----------------------------------------------------------------------------
(* The bootstrap server: CleanInactiveNodes.                               *)

\* now - record.Timestamp > 2 min
IsStaleFromLimit(a) == a >= Limit
IsStaleNextScan(a) == a > Limit + 1
IsStale(a) == a > Limit

\* The ticker of the cleanup fires.
ScanDueLate == scanIn < 0
ScanDue == scanIn = 0

\* GetAllData reads every record, then the time is read.
Scan ==
    /\ ScanDue
    /\ scanIn' = ScanPeriod
    /\ stale' = {n \in Node : age[n] # NoRecord /\ IsStale(age[n])}
    /\ UNCHANGED <<phase, timer, late, age>>

\* What DeleteKey leaves of a record.
AfterPurgeRestamped == 0
AfterPurge == NoRecord

\* The loop over the records read deletes the key of a stale one, whatever
\* the database holds for it by then.
Purge(n) ==
    /\ n \in stale
    /\ stale' = stale \ {n}
    /\ age' = [age EXCEPT ![n] = AfterPurge]
    /\ UNCHANGED <<phase, timer, late, scanIn>>

----------------------------------------------------------------------------
(* Time passes by one unit unless something is due.                        *)
Tick ==
    /\ ~ScanDue
    /\ stale = {}
    /\ \A n \in Node : phase[n] # "off" => timer[n] < Deadline(phase[n])
    /\ timer' = [n \in Node |-> IF phase[n] = "off" THEN 0 ELSE timer[n] + 1]
    /\ age' = [n \in Node |-> IF age[n] = NoRecord THEN NoRecord ELSE age[n] + 1]
    /\ scanIn' = scanIn - 1
    /\ UNCHANGED <<phase, late, stale>>

NodeStep(n) ==
    \/ Start(n) \/ Stop(n) \/ Handle(n) \/ HandleLate(n)
    \/ Answer(n) \/ Fail(n) \/ WakeUp(n)

Next ==
    \/ \E n \in Node : NodeStep(n)
    \/ Scan
    \/ \E n \in Node : Purge(n)
    \/ Tick

Spec == Init /\ [][Next]_vars

\* Time goes on, the server's ticker and its scan run, a post ends and a
\* sleep ends.  Nothing is assumed of Start, Stop and HandleLate.
FairSpec ==
    /\ Spec
    /\ WF_vars(Tick)
    /\ WF_vars(Scan)
    /\ \A n \in Node :
        /\ WF_vars(Purge(n))
        /\ WF_vars(WakeUp(n))
        /\ WF_vars(Handle(n) \/ Answer(n) \/ Fail(n))

----------------------------------------------------------------------------
(* Properties.                                                             *)

\* CleanInactiveNodes keeps no record beyond the limit by more than one
\* period of its ticker, however posts, stops and late requests interleave.
RecordAgeBounded == \A n \in Node : age[n] <= Limit + ScanPeriod

\* A node that keeps running and is answered within the client's timeout is
\* never missing from the registry once it is in it: the longest gap between
\* two of its records (30 + 60 + 30 s) is not over the 2 min of the scan.
ReliableNeverPurged ==
    [][\A n \in Reliable : age[n] # NoRecord => age'[n] # NoRecord]_vars

\* A node that has stopped for good leaves the registry for good
\* (README: "automatically purged from the active list").
StoppedNodeForgotten ==
    \A n \in Node :
        <>[](phase[n] = "off" /\ ~late[n]) => <>[](age[n] = NoRecord)

\* README: the nodes purged are those without a heartbeat for more than
\* 2 minutes.  The code decides that on the records it read before its loop:
\* a heartbeat handled since then is deleted with the old record.
PurgeOnlyStale ==
    [][\A n \in Node : Purge(n) => IsStale(age[n])]_vars
=============================================================================
