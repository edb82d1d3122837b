------------------------------ MODULE KeyStore ------------------------------
(***************************************************************************)
(* The identity of a node or bootstrap server: two PEM files beside its    *)
(* database.  main generates them when the private one is missing, reads   *)
(* them otherwise, and ignores the errors of both.  SignMessage reads the  *)
(* private file for each signature, while the public key is read once, at  *)
(* the start.  The receiver of a request verifies it with the public key   *)
(* that comes with it.                                                     *)
(*                                                                         *)
(* os.WriteFile creates the file before it writes it, so a crash or an     *)
(* error can leave a torn file.  Nobody else touches the files.            *)
(***************************************************************************)
EXTENDS Integers

CONSTANTS
    Process,   \* the processes, each with a directory of its own
    MaxPairs   \* how many key pairs a process generates at most

ASSUME KeyAssumption == MaxPairs \in Nat

Pair == 1..MaxPairs

VARIABLES
    pc,       \* where main stands
    last,     \* the newest pair that was generated
    private,  \* the private key file: the number of its pair, or
    public,   \* the public key file: "none" or "torn"
    key,      \* config.PublicKey
    known,    \* the keys under which others have accepted requests
    failed,   \* an I/O error (not a missing file) that main ignored in this run
    torn      \* a GenerateKeyPair ended between the first file and the last

disk == <<last, private, public>>
vars == <<pc, disk, key, known, failed, torn>>

Content == Pair \cup {0, -1}
None == 0
Torn == -1
Place == {"down", "start", "private", "create", "public", "read", "up"}
Writing == {"private", "create", "public"}

TypeOK ==
    /\ pc \in [Process -> Place]
    /\ last \in [Process -> 0..MaxPairs]
    /\ private \in [Process -> Content]
    /\ public \in [Process -> Content]
    /\ key \in [Process -> Content]
    /\ known \in [Process -> SUBSET Pair]
    /\ failed \in [Process -> BOOLEAN]
    /\ torn \in [Process -> BOOLEAN]

Init ==
    /\ pc = [p \in Process |-> "down"]
    /\ last = [p \in Process |-> 0]
    /\ private = [p \in Process |-> None]
    /\ public = [p \in Process |-> None]
    /\ key = [p \in Process |-> None]
    /\ known = [p \in Process |-> {}]
    /\ failed = [p \in Process |-> FALSE]
    /\ torn = [p \in Process |-> FALSE]

----------------------------------------------------------------------------
(* The start of a process.                                                 *)

Goto(p, from, to) ==
    /\ pc[p] = from
    /\ pc' = [pc EXCEPT ![p] = to]

Start(p) ==
    /\ Goto(p, "down", "start")
    /\ UNCHANGED <<disk, key, known, failed, torn>>

\* os.Stat on the private key file only.
KeysExistNever(p) == FALSE
KeysExist(p) == private[p] # None

\* config.PublicKey, _ = crypto.GetPublicKey().  What GetPrivateKey returns is
\* never used.
LoadKeys(p) ==
    /\ KeysExist(p)
    /\ Goto(p, "start", "up")
    /\ key' = [key EXCEPT ![p] = public[p]]
    /\ UNCHANGED <<disk, known, failed, torn>>

\* The read fails, and os.ReadFile returns nothing or what it has read so far;
\* so it does when os.Stat failed for another reason than a missing file.
LoadFails(p) ==
    /\ Goto(p, "start", "up")
    /\ \E rest \in {None, Torn} : key' = [key EXCEPT ![p] = rest]
    /\ failed' = [failed EXCEPT ![p] = TRUE]
    /\ UNCHANGED <<disk, known, torn>>

\* ed25519.GenerateKey; WriteFile creates the private key file.
GenerateKeyPair(p) ==
    /\ ~KeysExist(p)
    /\ last[p] < MaxPairs
    /\ Goto(p, "start", "private")
    /\ last' = [last EXCEPT ![p] = @ + 1]
    /\ private' = [private EXCEPT ![p] = Torn]
    /\ UNCHANGED <<public, key, known, failed, torn>>

WritePrivate(p) ==
    /\ Goto(p, "private", "create")
    /\ private' = [private EXCEPT ![p] = last[p]]
    /\ UNCHANGED <<last, public, key, known, failed, torn>>

CreatePublic(p) ==
    /\ Goto(p, "create", "public")
    /\ public' = [public EXCEPT ![p] = Torn]
    /\ UNCHANGED <<last, private, key, known, failed, torn>>

WritePublic(p) ==
    /\ Goto(p, "public", "read")
    /\ public' = [public EXCEPT ![p] = last[p]]
    /\ UNCHANGED <<last, private, key, known, failed, torn>>

\* config.PublicKey = publicKey
AfterReadBackNothing(p) == key
AfterReadBack(p) == [key EXCEPT ![p] = public[p]]

ReadBack(p) ==
    /\ Goto(p, "read", "up")
    /\ key' = AfterReadBack(p)
    /\ UNCHANGED <<disk, known, failed, torn>>

Interrupted(p) == torn' = [torn EXCEPT ![p] = @ \/ pc[p] \in Writing]

\* A step of GenerateKeyPair returns an error, which main ignores.
GenerateFails(p) ==
    /\ pc[p] = "start" => ~KeysExist(p)
    /\ \E place \in Writing \cup {"start", "read"} : Goto(p, place, "up")
    /\ failed' = [failed EXCEPT ![p] = TRUE]
    /\ Interrupted(p)
    /\ UNCHANGED <<disk, key, known>>

----------------------------------------------------------------------------
(* The running process.                                                    *)

\* SignMessage finds a private key, and VerifySignature accepts with the
\* public key that was sent along.
AcceptedUnread(p) == private[p] = key[p]
Accepted(p) == key[p] \in Pair /\ private[p] = key[p]

Request(p) ==
    /\ pc[p] = "up"
    /\ Accepted(p)
    /\ known' = [known EXCEPT ![p] = @ \cup {key[p]}]
    /\ UNCHANGED <<pc, disk, key, failed, torn>>

\* The process stops or crashes, wherever it is.
Crash(p) ==
    /\ pc[p] # "down"
    /\ pc' = [pc EXCEPT ![p] = "down"]
    /\ key' = [key EXCEPT ![p] = None]
    /\ failed' = [failed EXCEPT ![p] = FALSE]
    /\ Interrupted(p)
    /\ UNCHANGED <<disk, known>>

Main(p) ==
    \/ Start(p) \/ LoadKeys(p) \/ GenerateKeyPair(p)
    \/ WritePrivate(p) \/ CreatePublic(p) \/ WritePublic(p) \/ ReadBack(p)

Next ==
    \E p \in Process : Main(p) \/ LoadFails(p) \/ GenerateFails(p) \/ Request(p) \/ Crash(p)

Spec == Init /\ [][Next]_vars

\* A process is started again, and its start and requests get on.
FairSpec ==
    /\ Spec
    /\ \A p \in Process : WF_vars(Main(p)) /\ WF_vars(Request(p))

----------------------------------------------------------------------------
(* Properties.                                                             *)

\* A process never shows others a second identity, however often it stops
\* while it starts.
OneIdentity == \A p \in Process : \A i, j \in known[p] : i = j

\* Nothing that happens to a process which was accepted once, an end at any
\* moment or an error while it starts, touches its files: they stay the pair
\* that others know, and a start that can read them is accepted again.
AcceptedForGood ==
    \A p \in Process : known[p] # {} =>
        /\ private[p] \in known[p] /\ public[p] = private[p]
        /\ pc[p] = "up" /\ ~failed[p] => Accepted(p)

\* What disables a process is either an error in this very run that main has
\* ignored, or an end of an earlier one between the creation of the first
\* file and the last write of the second.
AcceptedUnlessTorn ==
    \A p \in Process : (pc[p] = "up" /\ ~failed[p] /\ ~torn[p]) => Accepted(p)

\* A process that was accepted once is accepted whenever it runs, which a read
\* error that main ignores refutes: such a run has no public key.
AcceptedWhenUp ==
    \A p \in Process : (pc[p] = "up" /\ known[p] # {}) => Accepted(p)

\* A process that stays up some time is accepted: what went wrong when the
\* keys were written is put right when it starts again.
StartHeals ==
    \A p \in Process : <>[](pc[p] # "down" /\ ~failed[p]) => <>(known[p] # {})
=============================================================================
