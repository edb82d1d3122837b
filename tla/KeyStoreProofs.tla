--------------------------- MODULE KeyStoreProofs ---------------------------
(* Proofs about KeyStore, for any processes and any number of pairs.       *)
EXTENDS KeyStore, TLAPS

(* A process generates one pair at most: the private key file that the     *)
(* first try leaves behind, torn or not, is never removed.                 *)
OnePair(p) ==
    /\ last[p] \in {0, 1}
    /\ {private[p], public[p]} \subseteq {None, Torn, 1}
    /\ private[p] = None <=> last[p] = 0
    /\ private[p] = None => pc[p] \in {"down", "start", "up"} /\ public[p] = None
    /\ known[p] \subseteq {1}

(* What main has done when it stands at each of its places.                *)
Written(p) ==
    /\ pc[p] \in {"create", "public"} => private[p] = 1
    /\ pc[p] = "read" => private[p] = 1 /\ public[p] = 1
    /\ key[p] # None => pc[p] = "up"
    /\ key[p] \notin {None, Torn} => key[p] = public[p]

(* A process that was accepted has both files, and what it has read.       *)
Established(p) ==
    known[p] # {} =>
        /\ pc[p] \in {"down", "start", "up"}
        /\ private[p] = 1 /\ public[p] = 1
        /\ pc[p] = "up" /\ ~failed[p] => key[p] = 1

(* Without a torn generation there are both files or none.                 *)
Whole(p) ==
    ~torn[p] =>
        /\ pc[p] \in {"down", "start", "up"} =>
               private[p] = public[p] /\ private[p] \in {None, 1}
        /\ pc[p] = "up" /\ ~failed[p] => key[p] = 1 /\ private[p] = 1

KeyInv(p) == OnePair(p) /\ Written(p) /\ Established(p) /\ Whole(p)
IInv == TypeOK /\ \A p \in Process : KeyInv(p)

----------------------------------------------------------------------------
LEMMA InitIInv == Init => IInv
BY KeyAssumption DEF Init, IInv, TypeOK, KeyInv, OnePair, Written, Established,
   Whole, Place, Content, Pair, None, Torn

LEMMA TypeStep == TypeOK /\ [Next]_vars => TypeOK'
<1> SUFFICES ASSUME TypeOK, [Next]_vars PROVE TypeOK'
  OBVIOUS
<1> USE KeyAssumption DEF TypeOK, Place, Content, Pair, None, Torn, disk, Goto
<1>1. ASSUME NEW p \in Process, Main(p) PROVE TypeOK'
  BY <1>1 DEF Main, Start, LoadKeys, GenerateKeyPair, WritePrivate, CreatePublic,
     WritePublic, AfterReadBack, ReadBack
<1>2. ASSUME NEW p \in Process, NEW f \in BOOLEAN, NEW b \in BOOLEAN,
             UNCHANGED <<disk, known>>,
             pc' \in [Process -> Place], key' \in [Process -> Content],
             failed' = [failed EXCEPT ![p] = f], torn' = [torn EXCEPT ![p] = b]
      PROVE  TypeOK'
  BY <1>2
<1>3. ASSUME NEW p \in Process, GenerateFails(p) \/ Crash(p) PROVE TypeOK'
  <2>1. (torn[p] \/ pc[p] \in Writing) \in BOOLEAN
    OBVIOUS
  <2>2. pc' \in [Process -> Place] /\ key' \in [Process -> Content]
    BY <1>3 DEF GenerateFails, Crash, Writing
  <2> QED BY <1>2, <1>3, <2>1, <2>2 DEF GenerateFails, Crash, Interrupted
<1>4. ASSUME NEW p \in Process, Request(p) PROVE TypeOK'
  BY <1>4 DEF Request, Accepted
<1>5. ASSUME NEW p \in Process, LoadFails(p) PROVE TypeOK'
  BY <1>5 DEF LoadFails
<1>6. CASE UNCHANGED vars
  BY <1>6 DEF vars
<1> QED BY <1>1, <1>3, <1>4, <1>5, <1>6 DEF Next

(* A process touches its own files only.                                   *)
LEMMA OthersKept ==
    ASSUME TypeOK, NEW p \in Process, NEW q \in Process \ {p}, KeyInv(q),
           Main(p) \/ LoadFails(p) \/ GenerateFails(p) \/ Request(p) \/ Crash(p)
    PROVE  KeyInv(q)'
<1>1. /\ pc'[q] = pc[q] /\ last'[q] = last[q] /\ private'[q] = private[q]
      /\ public'[q] = public[q] /\ key'[q] = key[q] /\ known'[q] = known[q]
  BY DEF TypeOK, Main, Start, LoadKeys, LoadFails, GenerateKeyPair, WritePrivate,
     CreatePublic, WritePublic, AfterReadBack, ReadBack, GenerateFails, Request,
     Crash, Goto, disk
<1>2. failed'[q] = failed[q]
  BY DEF TypeOK, Main, Start, LoadKeys, LoadFails, GenerateKeyPair, WritePrivate,
     CreatePublic, WritePublic, ReadBack, GenerateFails, Request, Crash
<1>3. torn'[q] = torn[q]
  BY DEF TypeOK, Main, Start, LoadKeys, LoadFails, GenerateKeyPair, WritePrivate,
     CreatePublic, WritePublic, ReadBack, GenerateFails, Request, Crash, Interrupted
<1> QED BY <1>1, <1>2, <1>3 DEF KeyInv, OnePair, Written, Established, Whole

(* The steps of main.                                                      *)
LEMMA MainKeyInv ==
    ASSUME TypeOK, NEW p \in Process, KeyInv(p), Main(p)
    PROVE  KeyInv(p)'
<1> USE DEF TypeOK, KeyInv, OnePair, Written, Established, Whole, Goto, None, Torn,
        disk, Place, Content, Pair
<1>1. CASE Start(p)
  BY <1>1 DEF Start
<1>2. CASE LoadKeys(p)
  BY <1>2 DEF LoadKeys, KeysExist
<1>3. CASE GenerateKeyPair(p)
  BY <1>3 DEF GenerateKeyPair, KeysExist
<1>4. CASE WritePrivate(p)
  BY <1>4 DEF WritePrivate
<1>5. CASE CreatePublic(p)
  BY <1>5 DEF CreatePublic
<1>6. CASE WritePublic(p)
  BY <1>6 DEF WritePublic
<1>7. CASE ReadBack(p)
  BY <1>7 DEF ReadBack, AfterReadBack
<1> QED BY <1>1, <1>2, <1>3, <1>4, <1>5, <1>6, <1>7 DEF Main

(* An error of GenerateKeyPair, or the end of the process.                 *)
LEMMA EndKeyInv ==
    ASSUME TypeOK, NEW p \in Process, KeyInv(p), GenerateFails(p) \/ Crash(p)
    PROVE  KeyInv(p)'
<1> USE DEF TypeOK, None, Torn, Content, Pair
<1>1. UNCHANGED <<last, private, public, known>>
  BY DEF GenerateFails, Crash, disk
<1>2. torn'[p] = (torn[p] \/ pc[p] \in Writing)
  BY DEF GenerateFails, Crash, Interrupted
<1>3. ~torn'[p] => ~torn[p] /\ pc[p] \notin Writing
  BY <1>2
<1>4. CASE GenerateFails(p)
  <2>1. pc'[p] = "up" /\ failed'[p] /\ key' = key
    BY <1>4 DEF GenerateFails, Goto
  <2>2. /\ pc[p] \in {"start", "private", "create", "public", "read"}
        /\ pc[p] = "start" => private[p] = None
    BY <1>4 DEF GenerateFails, Goto, Writing, KeysExist
  <2>3. known[p] = {}
    BY <2>2 DEF KeyInv, Established
  <2>4. ~torn'[p] => private[p] = public[p] /\ private[p] \in {None, 1}
    BY <1>3, <2>2 DEF KeyInv, Whole, Written, Writing
  <2>5. key[p] = None
    BY <2>2 DEF KeyInv, Written
  <2> QED BY <1>1, <2>1, <2>2, <2>3, <2>4, <2>5
          DEF KeyInv, OnePair, Written, Established, Whole
<1>5. CASE Crash(p)
  <2>1. pc'[p] = "down" /\ key'[p] = None
    BY <1>5 DEF Crash
  <2>2. ~torn'[p] => private[p] = public[p] /\ private[p] \in {None, 1}
    BY <1>3 DEF KeyInv, Whole, Written, Writing, Place
  <2> QED BY <1>1, <2>1, <2>2 DEF KeyInv, OnePair, Written, Established, Whole
<1> QED BY <1>4, <1>5

(* A start that cannot read the files leaves them alone.                   *)
LEMMA LoadFailsKeyInv ==
    ASSUME TypeOK, NEW p \in Process, KeyInv(p), LoadFails(p)
    PROVE  KeyInv(p)'
<1>1. /\ pc[p] = "start" /\ pc'[p] = "up" /\ failed'[p]
      /\ key'[p] \in {None, Torn}
  BY DEF LoadFails, Goto, TypeOK
<1>2. UNCHANGED <<last, private, public, known, torn>>
  BY DEF LoadFails, disk
<1> QED BY <1>1, <1>2 DEF KeyInv, OnePair, Written, Established, Whole

LEMMA RequestKeyInv ==
    ASSUME TypeOK, NEW p \in Process, KeyInv(p), Request(p)
    PROVE  KeyInv(p)'
<1>1. key[p] = 1 /\ private[p] = 1 /\ public[p] = 1 /\ pc[p] = "up"
  BY DEF Request, Accepted, KeyInv, OnePair, Written, Pair, None, Torn
<1>2. known'[p] = known[p] \cup {1}
  BY <1>1 DEF TypeOK, Request
<1>3. UNCHANGED <<pc, last, private, public, key>>
  BY DEF Request, disk
<1>4. UNCHANGED <<failed, torn>>
  BY DEF Request
<1> QED BY <1>1, <1>2, <1>3, <1>4
        DEF KeyInv, OnePair, Written, Established, Whole, None

LEMMA StepIInv == IInv /\ [Next]_vars => IInv'
<1> SUFFICES ASSUME IInv, [Next]_vars, NEW q \in Process PROVE KeyInv(q)'
  BY TypeStep DEF IInv
<1>1. TypeOK /\ KeyInv(q)
  BY DEF IInv
<1>2. CASE UNCHANGED vars
  BY <1>1, <1>2 DEF vars, disk, KeyInv, OnePair, Written, Established, Whole
<1>3. ASSUME NEW p \in Process,
             Main(p) \/ LoadFails(p) \/ GenerateFails(p) \/ Request(p) \/ Crash(p)
      PROVE  KeyInv(q)'
  BY <1>1, <1>3, OthersKept, MainKeyInv, LoadFailsKeyInv, EndKeyInv, RequestKeyInv
<1> QED BY <1>2, <1>3 DEF Next

LEMMA AlwaysIInv == Spec => []IInv
BY InitIInv, StepIInv, PTL DEF Spec

----------------------------------------------------------------------------
(* main and SignMessage: files, memory and accepted keys keep their types. *)
THEOREM TypeCorrect == Spec => []TypeOK
<1>1. IInv => TypeOK
  BY DEF IInv
<1> QED BY <1>1, AlwaysIInv, PTL

(* GenerateKeyPair is called when the private key file is missing: however *)
(* often a process stops while it starts, others see one identity of it.   *)
THEOREM IdentityIsOne == Spec => []OneIdentity
<1>1. IInv => OneIdentity
  BY DEF IInv, KeyInv, OnePair, OneIdentity
<1> QED BY <1>1, AlwaysIInv, PTL

(* main, SignMessage and VerifySignature: the files of a process that was  *)
(* accepted once stay as they are, and each run that can read them is      *)
(* accepted.                                                               *)
THEOREM AcceptedStays == Spec => []AcceptedForGood
<1>1. ASSUME IInv, NEW p \in Process, known[p] # {}
      PROVE  /\ private[p] \in known[p] /\ public[p] = private[p]
             /\ pc[p] = "up" /\ ~failed[p] => Accepted(p)
  <2>1. private[p] = 1 /\ public[p] = 1 /\ known[p] = {1}
    BY <1>1 DEF IInv, KeyInv, OnePair, Established
  <2>2. pc[p] = "up" /\ ~failed[p] => key[p] = 1
    BY <1>1 DEF IInv, KeyInv, Established
  <2>3. 1 \in Pair
    BY <1>1, <2>1 DEF IInv, TypeOK
  <2> QED BY <2>1, <2>2, <2>3 DEF Accepted
<1>2. IInv => AcceptedForGood
  BY <1>1 DEF AcceptedForGood
<1> QED BY <1>2, AlwaysIInv, PTL

(* GenerateKeyPair's two writes: a run of main that has ignored no error   *)
(* is accepted, unless an earlier run ended between the creation of the    *)
(* first file and the last write of the second.                            *)
THEOREM TornOrAccepted == Spec => []AcceptedUnlessTorn
<1>1. ASSUME IInv, NEW p \in Process, pc[p] = "up", ~failed[p], ~torn[p]
      PROVE  Accepted(p)
  <2>1. key[p] = 1 /\ private[p] = 1
    BY <1>1 DEF IInv, KeyInv, Whole
  <2>2. 1 \in Pair
    BY <1>1, <2>1, KeyAssumption DEF IInv, TypeOK, Content, Pair, None, Torn
  <2> QED BY <2>1, <2>2 DEF Accepted
<1>2. IInv => AcceptedUnlessTorn
  BY <1>1 DEF AcceptedUnlessTorn
<1> QED BY <1>2, AlwaysIInv, PTL
=============================================================================
