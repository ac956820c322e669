---------------------------- MODULE ExecutorProofs ----------------------------
(***************************************************************************)
(* What holds of Executor for every set of calls and every size of the     *)
(* semaphore and of the pool.                                              *)
(***************************************************************************)
EXTENDS Executor, FiniteSetTheorems, SequenceTheorems, TLAPS

(* A queue without repetitions of calls that are in the given state.       *)
Queue(q, S) ==
  /\ q \in Seq(S)
  /\ \A i, j \in 1 .. Len(q) : q[i] = q[j] => i = j

(* How far the job or the process of a call can be, by where the call is.  *)
InStep(c) ==
  IF c \in Remote
  THEN /\ pc[c] \notin {"spawning", "killing"}
       /\ pc[c] \in {"idle", "waiting"} => work[c] = "none"
       /\ c \in Holders =>
            work[c] \in {"queued", "connecting", "executing", "succeeded",
                         "exited", "lost", "failed"}
       /\ Ended(c) => work[c] # "queued"
  ELSE /\ pc[c] \notin {"waiting", "aborting"}
       /\ pc[c] = "idle" => work[c] = "none"
       /\ pc[c] \in {"spawning", "awaiting", "expiring"} =>
            work[c] \in {"executing", "succeeded", "exited"}
       /\ pc[c] = "killing" => work[c] = "killed"
       /\ pc[c] = "answered" =>
            work[c] \in {"succeeded", "exited", "failed", "killed"}
       /\ pc[c] = "cancelled" =>
            work[c] \in {"executing", "succeeded", "exited", "killed"}

(* What an answer says of the command, and that there is none before the   *)
(* call is answered.                                                       *)
TrueAnswer(c) ==
  /\ answer[c] = "none" <=> pc[c] # "answered"
  /\ answer[c] = "ok" => work[c] = "succeeded"
  /\ answer[c] = "command_failed" => work[c] \in {"exited", "lost"}
  /\ answer[c] = "transport_error" => work[c] = "failed"
  /\ answer[c] = "raised" => c \in Local /\ RanToItsEnd(c)

(* The inductive invariant.  That the slots add up needs only the count;   *)
(* that a session has a slot, that an answer is true and that no job is    *)
(* begun late need to know how far the job of each call can be, and that  *)
(* the queues hold each call once, with a job that has not begun: else     *)
(* Begin could start the job of a call that has ended, or start it twice.  *)
IInv ==
  /\ TypeOK
  /\ free + Cardinality(Holders) = MaxConcurrency
  /\ Queue(waiting, {c \in Remote : pc[c] = "waiting"})
  /\ Queue(pool, {c \in Remote : work[c] = "queued"})
  /\ \A c \in Calls : InStep(c) /\ TrueAnswer(c)

-------------------------------------------------------------------------------
(* Queues *)

(* Taking an element out of a sequence without repetitions: the others     *)
(* stay, and nothing is repeated.                                          *)
LEMMA RemoveFirstElements ==
  ASSUME NEW S, NEW s \in Seq(S), NEW e,
         \A i, j \in 1 .. Len(s) : s[i] = s[j] => i = j
  PROVE  /\ RemoveFirst(s, e) \in Seq(S)
         /\ \A i, j \in 1 .. Len(RemoveFirst(s, e)) :
              RemoveFirst(s, e)[i] = RemoveFirst(s, e)[j] => i = j
         /\ \A i \in 1 .. Len(RemoveFirst(s, e)) :
              /\ RemoveFirst(s, e)[i] # e
              /\ \E j \in 1 .. Len(s) : RemoveFirst(s, e)[i] = s[j]
<1> DEFINE r == RemoveFirst(s, e)
<1>1. CASE ~ \E i \in 1 .. Len(s) : s[i] = e
  BY <1>1 DEF RemoveFirst
<1>2. CASE \E i \in 1 .. Len(s) : s[i] = e
  <2>1. PICK k \in 1 .. Len(s) : s[k] = e
    BY <1>2
  <2>2. {i \in 1 .. Len(s) : s[i] = e} = {k}
    BY <2>1
  <2>3. Min({k}) = k
    BY <2>1 DEF Min
  <2>4. SelectInSeq(s, LAMBDA v : v = e) = k
    BY <2>2, <2>3 DEF SelectInSeq
  <2> DEFINE a == SubSeq(s, 1, k - 1)
             b == SubSeq(s, k + 1, Len(s))
  <2>5. r = a \o b
    BY <1>2, <2>4 DEF RemoveFirst, RemoveAt
  <2>6. /\ a \in Seq(S) /\ Len(a) = k - 1
        /\ \A i \in 1 .. Len(a) : a[i] = s[i]
    BY <2>1
  <2>7. /\ b \in Seq(S) /\ Len(b) = Len(s) - k
        /\ \A i \in 1 .. Len(b) : b[i] = s[k + i]
    BY <2>1
  <2> HIDE DEF a, b, r
  <2>8. /\ r \in Seq(S)
        /\ Len(r) = Len(s) - 1
        /\ \A i \in 1 .. Len(r) : r[i] = IF i < k THEN s[i] ELSE s[i + 1]
    <3>1. r \in Seq(S) /\ Len(r) = Len(s) - 1
      <4>1. r \in Seq(S) /\ Len(r) = Len(a) + Len(b)
        BY <2>5, <2>6, <2>7, ConcatProperties
      <4>2. Len(a) + Len(b) = Len(s) - 1
        BY <2>1, <2>6, <2>7
      <4> QED
        BY <4>1, <4>2
    <3>2. ASSUME NEW i \in 1 .. Len(r)
          PROVE  r[i] = IF i < k THEN s[i] ELSE s[i + 1]
      <4>1. CASE i < k
        BY <2>1, <2>5, <2>6, <2>7, <3>1, <4>1
      <4>2. CASE i >= k
        <5>1. r[i] = b[i - Len(a)]
          BY <2>1, <2>5, <2>6, <2>7, <3>1, <4>2
        <5>2. i - Len(a) \in 1 .. Len(b) /\ k + (i - Len(a)) = i + 1
          BY <2>1, <2>6, <2>7, <3>1, <4>2
        <5>3. b[i - Len(a)] = s[k + (i - Len(a))]
          BY <2>7, <5>2
        <5>4. ~(i < k)
          BY <2>1, <3>1, <4>2
        <5> QED
          BY <5>1, <5>2, <5>3, <5>4
      <4> QED
        BY <2>1, <4>1, <4>2
    <3> QED
      BY <3>1, <3>2
  <2>9. ASSUME NEW i \in 1 .. Len(r)
        PROVE  /\ i \in 1 .. Len(s) /\ i + 1 \in 1 .. Len(s)
               /\ i < k => r[i] = s[i] /\ i # k
               /\ i >= k => r[i] = s[i + 1] /\ i + 1 # k
    BY <2>1, <2>8
  <2>10. \A i \in 1 .. Len(r) :
           r[i] # e /\ \E j \in 1 .. Len(s) : r[i] = s[j]
    BY <2>1, <2>9
  <2>11. \A i, j \in 1 .. Len(r) : r[i] = r[j] => i = j
    BY <2>1, <2>9
  <2> QED
    BY <2>8, <2>10, <2>11 DEF r
<1> QED
  BY <1>1, <1>2

(* Whoever stands in a queue is in the state the queue is for.             *)
LEMMA QueueKept ==
  ASSUME NEW S, NEW T, NEW q, Queue(q, S),
         \A i \in 1 .. Len(q) : q[i] \in S => q[i] \in T
  PROVE  Queue(q, T)
<1>1. q \in Seq(S) /\ \A i \in 1 .. Len(q) : q[i] \in T
  BY DEF Queue
<1>2. q \in Seq(T)
  BY <1>1
<1> QED
  BY <1>2 DEF Queue

(* A call that joins a queue was not in it.                                *)
LEMMA QueueJoin ==
  ASSUME NEW S, NEW T, NEW q, Queue(q, S), NEW c \in T, c \notin S,
         S \subseteq T
  PROVE  Queue(Append(q, c), T)
<1>1. /\ q \in Seq(S) /\ q \in Seq(T)
      /\ \A i \in 1 .. Len(q) : q[i] # c
  BY DEF Queue
<1>2. /\ Append(q, c) \in Seq(T)
      /\ Len(Append(q, c)) = Len(q) + 1
      /\ \A i \in 1 .. Len(q) : Append(q, c)[i] = q[i]
      /\ Append(q, c)[Len(q) + 1] = c
  BY <1>1
<1> QED
  BY <1>1, <1>2 DEF Queue

(* The first in the queue leaves it and changes its state.                 *)
LEMMA QueueServe ==
  ASSUME NEW S, NEW T, NEW q, Queue(q, S), q # <<>>,
         \A d \in S : d # Head(q) => d \in T
  PROVE  Head(q) \in S /\ Queue(Tail(q), T)
<1>1. q \in Seq(S) /\ Len(q) \in Nat \ {0} /\ Head(q) = q[1] /\ q[1] \in S
  BY DEF Queue
<1>2. /\ Tail(q) \in Seq(S)
      /\ Len(Tail(q)) = Len(q) - 1
      /\ \A i \in 1 .. Len(Tail(q)) : Tail(q)[i] = q[i + 1]
  BY <1>1
<1>3. \A i \in 1 .. Len(Tail(q)) : Tail(q)[i] # Head(q)
  BY <1>1, <1>2 DEF Queue
<1>4. \A i, j \in 1 .. Len(Tail(q)) : Tail(q)[i] = Tail(q)[j] => i = j
  BY <1>1, <1>2 DEF Queue
<1>5. Queue(Tail(q), S)
  BY <1>2, <1>4 DEF Queue
<1>6. \A i \in 1 .. Len(Tail(q)) : Tail(q)[i] \in S => Tail(q)[i] \in T
  BY <1>3
<1>7. Queue(Tail(q), T)
  BY <1>5, <1>6, QueueKept
<1> QED
  BY <1>1, <1>7

(* A call gives up its place.                                              *)
LEMMA QueueQuit ==
  ASSUME NEW S, NEW T, NEW q, Queue(q, S), NEW c,
         \A d \in S : d # c => d \in T
  PROVE  Queue(RemoveFirst(q, c), T)
<1>1. /\ q \in Seq(S)
      /\ \A i, j \in 1 .. Len(q) : q[i] = q[j] => i = j
  BY DEF Queue
<1>2. Queue(RemoveFirst(q, c), S)
  BY <1>1, RemoveFirstElements DEF Queue
<1>3. \A i \in 1 .. Len(RemoveFirst(q, c)) : RemoveFirst(q, c)[i] # c
  BY <1>1, RemoveFirstElements
<1> QED
  BY <1>2, <1>3, QueueKept

-------------------------------------------------------------------------------
(* One call at a time *)

(* Nothing becomes of the other calls.                                     *)
Only(c) ==
  /\ pc' \in [Calls -> PCs]
  /\ answer' \in [Calls -> Answers]
  /\ work' \in [Calls -> Works]
  /\ \A d \in Calls \ {c} :
       pc'[d] = pc[d] /\ answer'[d] = answer[d] /\ work'[d] = work[d]

(* What InStep and TrueAnswer say of a call is about that call alone.      *)
LEMMA OthersInStep ==
  ASSUME IInv, NEW c \in Calls, Only(c), InStep(c)', TrueAnswer(c)'
  PROVE  \A d \in Calls : InStep(d)' /\ TrueAnswer(d)'
<1> SUFFICES ASSUME NEW d \in Calls, d # c
             PROVE  InStep(d)' /\ TrueAnswer(d)'
  OBVIOUS
<1>1. InStep(d) /\ TrueAnswer(d)
  BY DEF IInv
<1>2. pc'[d] = pc[d] /\ answer'[d] = answer[d] /\ work'[d] = work[d]
  BY DEF Only
<1> QED
  BY <1>1, <1>2 DEF InStep, TrueAnswer, Holders, Ended, RanToItsEnd

(* Only finitely many calls hold a slot.                                   *)
LEMMA HoldersFinite ==
  IsFiniteSet(Holders) /\ Cardinality(Holders) \in Nat
<1>1. Holders \subseteq Calls
  BY DEF Holders, Remote
<1>2. IsFiniteSet(Holders)
  BY <1>1, FS_Subset, ConstantsAssumption DEF ConstantsAssumption
<1> QED
  BY <1>2, FS_CardinalityType

(* A call that takes a slot is one more holder, ...                        *)
LEMMA HoldersEnter ==
  ASSUME NEW c \in Remote, Only(c), c \notin Holders, c \in Holders'
  PROVE  Cardinality(Holders') = Cardinality(Holders) + 1
<1>1. Holders' = Holders \cup {c}
  BY DEF Only, Holders, Remote
<1> QED
  BY <1>1, HoldersFinite, FS_AddElement

(* ... one that gives it back is one fewer, ...                            *)
LEMMA HoldersLeave ==
  ASSUME NEW c \in Remote, Only(c), c \in Holders, c \notin Holders'
  PROVE  Cardinality(Holders') = Cardinality(Holders) - 1
<1>1. Holders' = Holders \ {c}
  BY DEF Only, Holders, Remote
<1> QED
  BY <1>1, HoldersFinite, FS_RemoveElement

(* ... and without either the holders are the same.                        *)
LEMMA HoldersStay ==
  ASSUME NEW c \in Calls, Only(c), c \in Holders <=> c \in Holders'
  PROVE  Holders' = Holders
BY DEF Only, Holders, Remote

(* A step of one call that takes no slot and gives none back, and neither  *)
(* joins a queue nor leaves one.                                           *)
LEMMA AsideStep ==
  ASSUME IInv, NEW c \in Calls, Only(c), UNCHANGED <<free, waiting, pool>>,
         c \in Holders <=> c \in Holders',
         pc[c] = "waiting" => pc'[c] = "waiting",
         work[c] = "queued" => work'[c] = "queued",
         InStep(c)', TrueAnswer(c)'
  PROVE  IInv'
<1>1. \A d \in Calls : InStep(d)' /\ TrueAnswer(d)'
  BY OthersInStep
<1>2. free' + Cardinality(Holders') = MaxConcurrency
  BY HoldersStay DEF IInv
<1>3. Queue(waiting', {d \in Remote : pc'[d] = "waiting"})
  <2>1. \A d \in Remote : pc[d] = "waiting" => pc'[d] = "waiting"
    BY DEF Only, Remote
  <2>2. Queue(waiting, {d \in Remote : pc'[d] = "waiting"})
    BY <2>1, QueueKept DEF IInv
  <2> QED
    BY <2>2
<1>4. Queue(pool', {d \in Remote : work'[d] = "queued"})
  <2>1. \A d \in Remote : work[d] = "queued" => work'[d] = "queued"
    BY DEF Only, Remote
  <2>2. Queue(pool, {d \in Remote : work'[d] = "queued"})
    BY <2>1, QueueKept DEF IInv
  <2> QED
    BY <2>2
<1>5. TypeOK'
  BY DEF IInv, TypeOK, Only
<1> QED
  BY <1>1, <1>2, <1>3, <1>4, <1>5 DEF IInv

-------------------------------------------------------------------------------
(* Steps *)

(* A call gets a slot and its job joins the queue of the pool.             *)
LEMMA EnterStep ==
  ASSUME IInv, NEW c \in Remote, pc[c] \in {"idle", "waiting"}, free > 0,
         EnterWith(c), UNCHANGED answer,
         Queue(waiting', {d \in Remote : pc'[d] = "waiting"})
  PROVE  IInv'
<1>1. c \in Calls /\ Only(c) /\ pc'[c] = "awaiting" /\ work'[c] = "queued"
      /\ answer'[c] = answer[c]
  BY DEF IInv, TypeOK, EnterWith, Only, Remote, PCs, Works
<1>2. work[c] = "none" /\ answer[c] = "none"
  BY <1>1, Zenon DEF IInv, InStep, TrueAnswer
<1>3. InStep(c)' /\ TrueAnswer(c)'
  BY <1>1, <1>2 DEF InStep, TrueAnswer, Holders, Ended
<1>4. \A d \in Calls : InStep(d)' /\ TrueAnswer(d)'
  BY <1>1, <1>3, OthersInStep
<1>5. free' = free - 1 /\ free' + Cardinality(Holders') = MaxConcurrency
  <2>1. c \notin Holders /\ c \in Holders'
    BY <1>1 DEF Holders
  <2>2. Cardinality(Holders') = Cardinality(Holders) + 1
    BY <1>1, <2>1, HoldersEnter
  <2> QED
    BY <2>2, HoldersFinite, ConstantsAssumption
    DEF IInv, TypeOK, EnterWith, ConstantsAssumption
<1>6. Queue(pool', {d \in Remote : work'[d] = "queued"})
  <2> DEFINE S == {d \in Remote : work[d] = "queued"}
             T == {d \in Remote : work'[d] = "queued"}
  <2>1. c \notin S /\ c \in T /\ S \subseteq T
    BY <1>1, <1>2 DEF Only, Remote
  <2>2. Queue(pool, S)
    BY DEF IInv
  <2> HIDE DEF S, T
  <2>3. Queue(Append(pool, c), T)
    BY <2>1, <2>2, QueueJoin
  <2> QED
    BY <2>3 DEF EnterWith, T
<1>7. TypeOK'
  <2>1. waiting' \in Seq(Remote) /\ pool' \in Seq(Remote)
    BY <1>6 DEF Queue
  <2>2. free' \in 0 .. MaxConcurrency
    BY <1>5, ConstantsAssumption DEF IInv, TypeOK, ConstantsAssumption
  <2> QED
    BY <1>1, <2>1, <2>2 DEF TypeOK, Only
<1> QED
  BY <1>4, <1>5, <1>6, <1>7 DEF IInv

(* A call gives its slot back; its job has been withdrawn or is past the   *)
(* queue.                                                                  *)
LEMMA LeaveStep ==
  ASSUME IInv, NEW c \in Remote, c \in Holders,
         NEW end \in {"answered", "cancelled"}, NEW a \in Answers,
         LeaveWith(c, end, a), Only(c), InStep(c)', TrueAnswer(c)',
         Queue(pool', {d \in Remote : work'[d] = "queued"})
  PROVE  IInv'
<1>1. c \in Calls /\ pc'[c] = end
  BY DEF IInv, TypeOK, LeaveWith, Remote
<1>2. \A d \in Calls : InStep(d)' /\ TrueAnswer(d)'
  BY <1>1, OthersInStep
<1>3. free' + Cardinality(Holders') = MaxConcurrency /\ free' \in Nat
  <2>1. c \notin Holders'
    BY <1>1 DEF Holders
  <2>2. Cardinality(Holders') = Cardinality(Holders) - 1
    BY <2>1, HoldersLeave
  <2> QED
    BY <2>2, HoldersFinite, ConstantsAssumption
    DEF IInv, TypeOK, LeaveWith, ConstantsAssumption
<1>4. Queue(waiting', {d \in Remote : pc'[d] = "waiting"})
  <2>1. \A d \in Remote : pc[d] = "waiting" => pc'[d] = "waiting"
    BY DEF Only, Remote, Holders
  <2>2. Queue(waiting, {d \in Remote : pc'[d] = "waiting"})
    BY <2>1, QueueKept DEF IInv
  <2> QED
    BY <2>2 DEF LeaveWith
<1>5. TypeOK'
  <2>1. waiting' \in Seq(Remote) /\ pool' \in Seq(Remote)
    BY <1>4 DEF Queue
  <2>2. Cardinality(Holders') \in Nat
    <3>1. Holders' \subseteq Calls
      BY DEF Holders, Remote
    <3> QED
      BY <3>1, FS_Subset, FS_CardinalityType, ConstantsAssumption
      DEF ConstantsAssumption
  <2>3. free' \in 0 .. MaxConcurrency
    BY <1>3, <2>2, ConstantsAssumption DEF ConstantsAssumption
  <2> QED
    BY <2>1, <2>3 DEF TypeOK, Only
<1> QED
  BY <1>2, <1>3, <1>4, <1>5 DEF IInv

(* A call takes a free slot at once, or joins those that wait.             *)
LEMMA SubmitStep ==
  ASSUME IInv, NEW c \in Remote, Submit(c)
  PROVE  IInv'
<1>1. CASE free > 0 /\ waiting = <<>> /\ EnterWith(c) /\ UNCHANGED waiting
  <2>1. Queue(waiting', {d \in Remote : pc'[d] = "waiting"})
    BY <1>1 DEF Queue
  <2> QED
    BY <1>1, <2>1, EnterStep DEF Submit
<1>2. CASE /\ pc' = [pc EXCEPT ![c] = "waiting"]
           /\ waiting' = Append(waiting, c)
           /\ UNCHANGED <<free, work, pool>>
  <2>1. c \in Calls /\ Only(c) /\ pc'[c] = "waiting" /\ work'[c] = work[c]
        /\ answer'[c] = answer[c]
    BY <1>2 DEF IInv, TypeOK, Submit, Only, Remote, PCs
  <2>2. pc[c] = "idle" /\ work[c] = "none" /\ answer[c] = "none"
    BY <2>1, Zenon DEF Submit, IInv, InStep, TrueAnswer
  <2>3. InStep(c)' /\ TrueAnswer(c)'
    BY <2>1, <2>2 DEF InStep, TrueAnswer, Holders, Ended
  <2>4. \A d \in Calls : InStep(d)' /\ TrueAnswer(d)'
    BY <2>1, <2>3, OthersInStep
  <2>5. Holders' = Holders
    BY <2>1, <2>2, HoldersStay DEF Holders
  <2>6. Queue(waiting', {d \in Remote : pc'[d] = "waiting"})
    <3> DEFINE S == {d \in Remote : pc[d] = "waiting"}
               T == {d \in Remote : pc'[d] = "waiting"}
    <3>1. c \notin S /\ c \in T /\ S \subseteq T
      BY <2>1, <2>2 DEF Only, Remote
    <3>2. Queue(waiting, S)
      BY DEF IInv
    <3> HIDE DEF S, T
    <3> QED
      BY <1>2, <3>1, <3>2, QueueJoin DEF T
  <2>7. Queue(pool', {d \in Remote : work'[d] = "queued"})
    BY <1>2 DEF IInv
  <2>8. TypeOK'
    BY <1>2, <2>1, <2>6 DEF IInv, TypeOK, Only, Queue
  <2> QED
    BY <1>2, <2>4, <2>5, <2>6, <2>7, <2>8 DEF IInv
<1> QED
  BY <1>1, <1>2 DEF Submit

(* The first that waits gets the slot.                                     *)
LEMMA AdmitStep ==
  ASSUME IInv, Admit
  PROVE  IInv'
<1> DEFINE S == {d \in Remote : pc[d] = "waiting"}
           T == {d \in Remote : pc'[d] = "waiting"}
<1>1. Queue(waiting, S) /\ waiting # <<>>
  BY DEF IInv, Admit
<1>2. PICK c : c = Head(waiting)
  OBVIOUS
<1>3. EnterWith(c) /\ free > 0 /\ waiting' = Tail(waiting)
      /\ UNCHANGED answer
  BY <1>2 DEF Admit
<1>4. \A d \in S : d # c => d \in T
  BY <1>3 DEF EnterWith, IInv, TypeOK, Remote
<1> HIDE DEF S, T
<1>5. c \in S /\ Queue(waiting', T)
  BY <1>1, <1>2, <1>3, <1>4, QueueServe
<1> QED
  BY <1>3, <1>5, EnterStep DEF S, T

(* A thread takes the first job of the pool's queue.                       *)
LEMMA BeginStep ==
  ASSUME IInv, Begin
  PROVE  IInv'
<1> DEFINE S == {d \in Remote : work[d] = "queued"}
           T == {d \in Remote : work'[d] = "queued"}
<1>1. Queue(pool, S) /\ pool # <<>>
  BY DEF IInv, Begin
<1>2. PICK c : c = Head(pool)
  OBVIOUS
<1>3. /\ work' = [work EXCEPT ![c] = "connecting"]
      /\ pool' = Tail(pool)
      /\ UNCHANGED <<free, waiting, pc, answer>>
  BY <1>2 DEF Begin
<1>4. \A d \in S : d # c => d \in T
  BY <1>3 DEF IInv, TypeOK, Remote
<1> HIDE DEF S, T
<1>5. c \in S /\ Queue(pool', T)
  BY <1>1, <1>2, <1>3, <1>4, QueueServe
<1>6. /\ c \in Calls /\ c \in Remote /\ Only(c)
      /\ work[c] = "queued" /\ work'[c] = "connecting"
      /\ pc'[c] = pc[c] /\ answer'[c] = answer[c]
  BY <1>3, <1>5 DEF S, IInv, TypeOK, Only, Remote, Works
<1>7. InStep(c)' /\ TrueAnswer(c)'
  <2>1. InStep(c) /\ TrueAnswer(c)
    BY <1>6 DEF IInv
  <2> QED
    BY <1>6, <2>1 DEF InStep, TrueAnswer, Holders, Ended
<1>8. \A d \in Calls : InStep(d)' /\ TrueAnswer(d)'
  BY <1>6, <1>7, OthersInStep
<1>9. Holders' = Holders
  BY <1>3 DEF Holders
<1>10. TypeOK'
  BY <1>3, <1>5, <1>6 DEF IInv, TypeOK, Only, Queue, T
<1> QED
  BY <1>3, <1>5, <1>8, <1>9, <1>10 DEF IInv, T

(* The remote host, the network or the process takes a step.               *)
LEMMA OutsideStep ==
  ASSUME IInv, NEW c \in Calls, Outside(c)
  PROVE  IInv'
<1>1. PICK from \in {"connecting", "executing"}, to \in Works :
        /\ WorkTurns(c, from, to)
        /\ \/ from = "connecting" /\ to = "executing"
           \/ c \in Remote /\ to = "failed"
           \/ c \in Remote /\ from = "executing" /\ to = "lost"
           \/ from = "executing" /\ to \in {"succeeded", "exited"}
  BY DEF Outside, Launch, SessionFails, ConnectionLost, Complete, Works
<1>2. /\ Only(c) /\ work[c] = from /\ work'[c] = to
      /\ UNCHANGED <<free, waiting, pc, answer, pool>>
  BY <1>1 DEF WorkTurns, IInv, TypeOK, Only
<1>3. InStep(c) /\ TrueAnswer(c)
  BY DEF IInv
<1>4. InStep(c)' /\ TrueAnswer(c)'
  BY <1>1, <1>2, <1>3 DEF InStep, TrueAnswer, Holders, Ended, RanToItsEnd
<1> QED
  BY <1>1, <1>2, <1>4, AsideStep DEF Holders

(* The deadline passes: a queued job stays queued until Settle.            *)
LEMMA ExpireStep ==
  ASSUME IInv, NEW c \in Calls, Expire(c)
  PROVE  IInv'
<1>1. /\ Only(c) /\ pc[c] = "awaiting" /\ pc'[c] = "expiring"
      /\ UNCHANGED <<free, waiting, answer, pool, work>>
  BY DEF Expire, IInv, TypeOK, Only, PCs
<1>2. InStep(c) /\ TrueAnswer(c)
  BY DEF IInv
<1>3. InStep(c)' /\ TrueAnswer(c)'
  BY <1>1, <1>2 DEF InStep, TrueAnswer, Holders, Ended, RanToItsEnd
<1> QED
  BY <1>1, <1>3, AsideStep DEF Holders

(* The result of the job arrives before the deadline.                      *)
LEMMA DeliverStep ==
  ASSUME IInv, NEW c \in Remote, Deliver(c)
  PROVE  IInv'
<1>1. PICK a \in Reported(c) : LeaveWith(c, "answered", a)
  BY DEF Deliver
<1>2. a \in Answers \ {"none", "raised"}
  BY DEF Reported, Answers
<1>3. /\ c \in Calls /\ c \in Holders /\ Only(c)
      /\ pc'[c] = "answered" /\ answer'[c] = a /\ work'[c] = work[c]
      /\ UNCHANGED <<pool, work>>
  BY <1>1, <1>2
  DEF Deliver, LeaveWith, IInv, TypeOK, Only, Remote, Holders, PCs
<1>4. work[c] \in {"succeeded", "exited", "lost", "failed"}
  BY DEF Reported
<1>5. InStep(c)'
  BY <1>3, <1>4 DEF InStep, Holders, Ended
<1>6. TrueAnswer(c)'
  BY <1>1, <1>2, <1>3 DEF TrueAnswer, Reported
<1>7. Queue(pool', {d \in Remote : work'[d] = "queued"})
  BY <1>3 DEF IInv
<1> QED
  BY <1>1, <1>2, <1>3, <1>5, <1>6, <1>7, LeaveStep

(* The job leaves the queue of the pool, if it still stands there.         *)
LEMMA WithdrawJobStep ==
  ASSUME IInv, NEW c \in Remote, WithdrawJob(c)
  PROVE  /\ Queue(pool', {d \in Remote : work'[d] = "queued"})
         /\ work' \in [Calls -> Works]
         /\ \A d \in Calls \ {c} : work'[d] = work[d]
         /\ work'[c] = IF work[c] = "queued" THEN "withdrawn" ELSE work[c]
<1> DEFINE S == {d \in Remote : work[d] = "queued"}
           T == {d \in Remote : work'[d] = "queued"}
<1>1. Queue(pool, S)
  BY DEF IInv
<1>2. c \in Calls /\ work \in [Calls -> Works]
  BY DEF IInv, TypeOK, Remote
<1>3. CASE work[c] = "queued"
  <2>1. /\ work' = [work EXCEPT ![c] = "withdrawn"]
        /\ pool' = RemoveFirst(pool, c)
    BY <1>3 DEF WithdrawJob
  <2>2. \A d \in S : d # c => d \in T
    BY <1>2, <2>1 DEF Remote
  <2> HIDE DEF S, T
  <2>3. Queue(pool', T)
    BY <1>1, <2>1, <2>2, QueueQuit
  <2> QED
    BY <1>2, <1>3, <2>1, <2>3 DEF T, Works
<1>4. CASE work[c] # "queued"
  BY <1>1, <1>2, <1>4 DEF WithdrawJob
<1> QED
  BY <1>3, <1>4

(* A call ends by its deadline or because its client gave up.              *)
LEMMA SettleStep ==
  ASSUME IInv, NEW c \in Remote, Settle(c)
  PROVE  IInv'
<1>1. PICK end \in {"answered", "cancelled"}, a \in {"timeout", "none"} :
        /\ LeaveWith(c, end, a)
        /\ end = "answered" <=> a = "timeout"
  BY DEF Settle
<1>2. WithdrawJob(c) /\ c \in Holders
  BY DEF Settle, Holders
<1>3. /\ c \in Calls /\ Only(c) /\ pc'[c] = end /\ answer'[c] = a
      /\ work'[c] = IF work[c] = "queued" THEN "withdrawn" ELSE work[c]
  BY <1>1, <1>2, WithdrawJobStep
  DEF LeaveWith, IInv, TypeOK, Only, Remote, PCs, Answers
<1>4. InStep(c)' /\ TrueAnswer(c)'
  BY <1>1, <1>3 DEF InStep, TrueAnswer, Holders, Ended
<1>5. a \in Answers
  BY DEF Answers
<1> QED
  BY <1>1, <1>2, <1>3, <1>4, <1>5, WithdrawJobStep, LeaveStep

(* The client gives up: a call that waits leaves the queue.                *)
LEMMA CancelStep ==
  ASSUME IInv, NEW c \in Remote, Cancel(c)
  PROVE  IInv'
<1>1. InStep(c) /\ TrueAnswer(c) /\ c \in Calls
  BY DEF IInv, Remote
<1>2. CASE /\ pc[c] = "waiting"
           /\ pc' = [pc EXCEPT ![c] = "cancelled"]
           /\ waiting' = RemoveFirst(waiting, c)
  <2>1. /\ Only(c) /\ pc'[c] = "cancelled" /\ work'[c] = work[c]
        /\ answer'[c] = answer[c] /\ UNCHANGED <<free, answer, pool, work>>
    BY <1>1, <1>2 DEF Cancel, IInv, TypeOK, Only, PCs
  <2>2. InStep(c)' /\ TrueAnswer(c)'
    BY <1>1, <1>2, <2>1 DEF InStep, TrueAnswer, Holders, Ended, RanToItsEnd
  <2>3. \A d \in Calls : InStep(d)' /\ TrueAnswer(d)'
    BY <1>1, <2>1, <2>2, OthersInStep
  <2>4. Holders' = Holders
    BY <1>1, <1>2, <2>1, HoldersStay DEF Holders
  <2>5. Queue(waiting', {d \in Remote : pc'[d] = "waiting"})
    <3> DEFINE S == {d \in Remote : pc[d] = "waiting"}
               T == {d \in Remote : pc'[d] = "waiting"}
    <3>1. \A d \in S : d # c => d \in T
      BY <2>1 DEF Only, Remote
    <3>2. Queue(waiting, S)
      BY DEF IInv
    <3> HIDE DEF S, T
    <3> QED
      BY <1>2, <3>1, <3>2, QueueQuit DEF T
  <2>6. TypeOK'
    BY <2>1, <2>5 DEF IInv, TypeOK, Only, Queue
  <2> QED
    BY <2>1, <2>3, <2>4, <2>5, <2>6 DEF IInv
<1>3. CASE /\ pc[c] \in {"awaiting", "expiring"}
           /\ pc' = [pc EXCEPT ![c] = "aborting"]
           /\ UNCHANGED waiting
  <2>1. /\ Only(c) /\ pc'[c] = "aborting"
        /\ UNCHANGED <<free, waiting, answer, pool, work>>
    BY <1>1, <1>3 DEF Cancel, IInv, TypeOK, Only, PCs
  <2>2. InStep(c)' /\ TrueAnswer(c)'
    BY <1>1, <1>3, <2>1 DEF InStep, TrueAnswer, Holders, Ended, RanToItsEnd
  <2> QED
    BY <1>1, <1>3, <2>1, <2>2, AsideStep DEF Holders
<1> QED
  BY <1>2, <1>3 DEF Cancel

(* Calls for the MCP host itself concern neither semaphore nor pool.       *)
LEMMA LocalStep ==
  ASSUME IInv, NEW c \in Local,
         \/ Spawn(c) \/ Spawned(c) \/ SpawnFails(c)
         \/ CancelSpawn(c) \/ CancelLocal(c)
         \/ DeliverLocal(c) \/ Kill(c) \/ Reap(c)
  PROVE  IInv'
<1>1. c \in Calls /\ c \notin Remote /\ InStep(c) /\ TrueAnswer(c)
  BY ConstantsAssumption DEF ConstantsAssumption, IInv, Remote
<1>2. /\ Only(c) /\ UNCHANGED <<free, waiting, pool>>
      /\ pc[c] # "waiting" /\ work[c] # "queued"
      /\ InStep(c)' /\ TrueAnswer(c)'
  <2>1. CASE Spawn(c)
    <3>1. /\ Only(c) /\ UNCHANGED <<free, waiting, answer, pool>>
          /\ pc[c] = "idle" /\ pc'[c] = "spawning" /\ work'[c] = "executing"
      BY <1>1, <2>1 DEF Spawn, IInv, TypeOK, Only, PCs, Works
    <3> QED
      BY <1>1, <3>1 DEF InStep, TrueAnswer, Holders, Ended, RanToItsEnd
  <2>2. CASE SpawnFails(c)
    <3>1. /\ Only(c) /\ UNCHANGED <<free, waiting, pool>>
          /\ pc[c] = "idle" /\ pc'[c] = "answered" /\ work'[c] = "failed"
          /\ answer'[c] = "transport_error"
      BY <1>1, <2>2
      DEF SpawnFails, EndLocal, IInv, TypeOK, Only, PCs, Works, Answers
    <3> QED
      BY <1>1, <3>1 DEF InStep, TrueAnswer, Holders, Ended, RanToItsEnd
  <2>3. CASE CancelLocal(c)
    <3>1. /\ Only(c) /\ UNCHANGED <<free, waiting, pool, work>>
          /\ pc[c] \in {"awaiting", "expiring", "killing"}
          /\ pc'[c] = "cancelled" /\ answer'[c] = "none"
      BY <1>1, <2>3
      DEF CancelLocal, EndLocal, IInv, TypeOK, Only, PCs, Answers
    <3> QED
      BY <1>1, <3>1 DEF InStep, TrueAnswer, Holders, Ended, RanToItsEnd
  <2>4. CASE DeliverLocal(c)
    <3>1. /\ pc[c] = "awaiting" /\ RanToItsEnd(c)
          /\ UNCHANGED <<free, waiting, pool, work>>
      BY <2>4 DEF DeliverLocal
    <3>2. PICK a \in Reported(c) : EndLocal(c, "answered", a)
      BY <2>4 DEF DeliverLocal
    <3>3. /\ a \in {"ok", "command_failed"}
          /\ a = "ok" => work[c] = "succeeded"
          /\ a = "command_failed" => work[c] \in {"exited", "lost"}
      BY <3>1 DEF Reported, RanToItsEnd
    <3>4. Only(c) /\ pc'[c] = "answered" /\ answer'[c] = a
      BY <1>1, <3>1, <3>2, <3>3
      DEF EndLocal, IInv, TypeOK, Only, PCs, Answers
    <3> QED
      BY <1>1, <3>1, <3>3, <3>4
      DEF InStep, TrueAnswer, Holders, Ended, RanToItsEnd
  <2>5. CASE Kill(c) /\ work[c] = "executing"
    <3>1. /\ Only(c) /\ UNCHANGED <<free, waiting, answer, pool>>
          /\ pc[c] = "expiring" /\ pc'[c] = "killing" /\ work'[c] = "killed"
      BY <1>1, <2>5
      DEF Kill, RanToItsEnd, IInv, TypeOK, Only, PCs, Works
    <3> QED
      BY <1>1, <2>5, <3>1 DEF InStep, TrueAnswer, Holders, Ended, RanToItsEnd
  <2>6. CASE Kill(c) /\ work[c] # "executing"
    <3>1. /\ pc[c] = "expiring" /\ RanToItsEnd(c)
          /\ UNCHANGED <<free, waiting, pool, work>>
      BY <2>6 DEF Kill
    <3>2. PICK a \in {"timeout", "raised"} : EndLocal(c, "answered", a)
      BY <2>6 DEF Kill
    <3>3. Only(c) /\ pc'[c] = "answered" /\ answer'[c] = a
      BY <1>1, <3>1, <3>2 DEF EndLocal, IInv, TypeOK, Only, PCs, Answers
    <3> QED
      BY <1>1, <3>1, <3>3
      DEF InStep, TrueAnswer, Holders, Ended, RanToItsEnd
  <2>7. CASE Reap(c)
    <3>1. /\ Only(c) /\ UNCHANGED <<free, waiting, pool, work>>
          /\ pc[c] = "killing" /\ pc'[c] = "answered"
          /\ answer'[c] = "timeout"
      BY <1>1, <2>7 DEF Reap, EndLocal, IInv, TypeOK, Only, PCs, Answers
    <3> QED
      BY <1>1, <3>1 DEF InStep, TrueAnswer, Holders, Ended, RanToItsEnd
  <2>8. CASE Spawned(c)
    <3>1. /\ Only(c) /\ UNCHANGED <<free, waiting, answer, pool, work>>
          /\ pc[c] = "spawning" /\ pc'[c] = "awaiting"
      BY <1>1, <2>8 DEF Spawned, IInv, TypeOK, Only, PCs
    <3> QED
      BY <1>1, <3>1 DEF InStep, TrueAnswer, Holders, Ended, RanToItsEnd
  <2>9. CASE CancelSpawn(c)
    <3>1. /\ Only(c) /\ UNCHANGED <<free, waiting, pool>>
          /\ pc[c] = "spawning" /\ pc'[c] = "cancelled"
          /\ answer'[c] = "none"
          /\ work'[c] = IF RanToItsEnd(c) THEN work[c] ELSE "killed"
      BY <1>1, <2>9
      DEF CancelSpawn, EndLocal, IInv, TypeOK, Only, PCs, Works, Answers
    <3> QED
      BY <1>1, <3>1 DEF InStep, TrueAnswer, Holders, Ended, RanToItsEnd
  <2> QED
    BY <2>1, <2>2, <2>3, <2>4, <2>5, <2>6, <2>7, <2>8, <2>9
<1>3. c \notin Holders /\ c \notin Holders'
  BY <1>1 DEF Holders, Remote
<1> QED
  BY <1>1, <1>2, <1>3, AsideStep

-------------------------------------------------------------------------------
(* Theorems *)

(* No call has been made.                                                  *)
LEMMA InitInvariant ==
  Init => IInv
<1> SUFFICES ASSUME Init
             PROVE  IInv
  OBVIOUS
<1>1. Holders = {} /\ Cardinality(Holders) = 0
  BY FS_EmptySet DEF Init, Holders, Remote
<1>2. TypeOK
  BY ConstantsAssumption
  DEF ConstantsAssumption, Init, TypeOK, PCs, Answers, Works
<1>3. /\ Queue(waiting, {c \in Remote : pc[c] = "waiting"})
      /\ Queue(pool, {c \in Remote : work[c] = "queued"})
  BY DEF Init, Queue
<1>4. \A c \in Calls : InStep(c) /\ TrueAnswer(c)
  BY DEF Init, InStep, TrueAnswer, Holders, Ended, Remote
<1> QED
  BY <1>1, <1>2, <1>3, <1>4, ConstantsAssumption
  DEF ConstantsAssumption, Init, IInv

(* Every step preserves the inductive invariant.                           *)
LEMMA NextInvariant ==
  IInv /\ [Next]_vars => IInv'
<1> SUFFICES ASSUME IInv, [Next]_vars
             PROVE  IInv'
  OBVIOUS
<1>1. CASE Admit
  BY <1>1, AdmitStep
<1>2. CASE Begin
  BY <1>2, BeginStep
<1>3. ASSUME NEW c \in Calls, Client(c)
      PROVE  IInv'
  BY <1>3, SubmitStep, CancelStep, LocalStep DEF Client
<1>4. ASSUME NEW c \in Calls, Handle(c)
      PROVE  IInv'
  BY <1>4, DeliverStep, SettleStep, LocalStep DEF Handle
<1>5. ASSUME NEW c \in Calls, Expire(c)
      PROVE  IInv'
  BY <1>5, ExpireStep
<1>6. ASSUME NEW c \in Calls, Outside(c)
      PROVE  IInv'
  BY <1>6, OutsideStep
<1>7. CASE UNCHANGED vars
  BY <1>7
  DEF vars, IInv, TypeOK, Queue, InStep, TrueAnswer, Holders, Ended,
      RanToItsEnd
<1> QED
  BY <1>1, <1>2, <1>3, <1>4, <1>5, <1>6, <1>7 DEF Next

(* The inductive invariant holds of every reachable state of the executor. *)
THEOREM Invariance == Spec => []IInv
<1> QED
  BY InitInvariant, NextInvariant, PTL DEF Spec

(* The semaphore's value stays between zero and ssh_max_concurrency, and   *)
(* only calls for other hosts wait for it or reach the pool.               *)
THEOREM TypeCorrect == Spec => []TypeOK
<1>1. IInv => TypeOK
  BY DEF IInv
<1> QED
  BY <1>1, Invariance, PTL

(* No slot of _SSH_SEMAPHORE is lost or handed out twice, however the      *)
(* calls end, and every session belongs to a slot until its call has       *)
(* ended.                                                                  *)
THEOREM SlotsAreConserved == Spec => []SlotsConserved
<1>1. IInv => SlotsConserved
  <2> SUFFICES ASSUME IInv, NEW c \in Sessions
               PROVE  c \in Holders \/ Ended(c)
    BY DEF IInv, SlotsConserved
  <2>1. c \in Remote /\ c \in Calls /\ work[c] \in {"connecting", "executing"}
    BY DEF Sessions, Remote
  <2>2. InStep(c) /\ pc[c] \in PCs
    BY <2>1 DEF IInv, TypeOK
  <2> QED
    BY <2>1, <2>2 DEF InStep, Holders, Ended, PCs
<1> QED
  BY <1>1, Invariance, PTL

(* What a call answers is what became of its command.                      *)
THEOREM AnswersTrue == Spec => []AnswersAreTrue
<1>1. IInv => AnswersAreTrue
  <2> SUFFICES ASSUME IInv, NEW c \in Calls
               PROVE  /\ TrueAnswer(c)
                      /\ answer[c] = "timeout" /\ c \in Local
                           => work[c] # "executing"
    BY DEF AnswersAreTrue, TrueAnswer
  <2>1. InStep(c) /\ TrueAnswer(c)
    BY DEF IInv
  <2> QED
    BY <2>1 DEF InStep, TrueAnswer, Remote
<1> QED
  BY <1>1, Invariance, PTL

(* Once a call has ended, no thread takes up a job of it that none had in  *)
(* hand, and a command that is over stays as it ended.                     *)
THEOREM NoLateJob == Spec => NoJobBegunLate
<1>1. IInv /\ [Next]_vars =>
        \A c \in Calls :
          Ended(c) /\ work[c] \notin {"connecting", "executing"}
            => work'[c] = work[c]
  <2> SUFFICES ASSUME IInv, [Next]_vars, NEW c \in Calls, Ended(c),
                      work[c] \notin {"connecting", "executing"}
               PROVE  work'[c] = work[c]
    OBVIOUS
  <2>1. InStep(c) /\ work \in [Calls -> Works]
    BY DEF IInv, TypeOK
  <2>2. CASE Admit
    <3>1. waiting # <<>> /\ waiting \in Seq({d \in Remote : pc[d] = "waiting"})
      BY <2>2 DEF Admit, IInv, Queue
    <3>2. pc[Head(waiting)] = "waiting"
      BY <3>1
    <3> QED
      BY <2>1, <2>2, <3>2 DEF Admit, EnterWith, Ended
  <2>3. CASE Begin
    <3>1. pool # <<>> /\ pool \in Seq({d \in Remote : work[d] = "queued"})
      BY <2>3 DEF Begin, IInv, Queue
    <3>2. work[Head(pool)] = "queued" /\ Head(pool) \in Remote
      BY <3>1
    <3> QED
      BY <2>1, <2>3, <3>2 DEF Begin, InStep
  <2>4. ASSUME NEW d \in Calls, Client(d)
        PROVE  work'[c] = work[c]
    BY <2>1, <2>4
    DEF Client, Submit, EnterWith, Cancel, Spawn, SpawnFails, CancelSpawn,
        CancelLocal, Ended
  <2>5. ASSUME NEW d \in Calls, Handle(d)
        PROVE  work'[c] = work[c]
    BY <2>1, <2>5
    DEF Handle, Deliver, Settle, WithdrawJob, Spawned, DeliverLocal, Kill,
        Reap, Ended
  <2>6. ASSUME NEW d \in Calls, Expire(d)
        PROVE  work'[c] = work[c]
    BY <2>6 DEF Expire
  <2>7. ASSUME NEW d \in Calls, Outside(d)
        PROVE  work'[c] = work[c]
    BY <2>1, <2>7
    DEF Outside, Launch, SessionFails, ConnectionLost, Complete, WorkTurns
  <2>8. CASE UNCHANGED vars
    BY <2>8 DEF vars
  <2> QED
    BY <2>2, <2>3, <2>4, <2>5, <2>6, <2>7, <2>8 DEF Next
<1>2. IInv /\ [Next]_vars =>
        [\A c \in Calls :
           Ended(c) /\ work[c] \notin {"connecting", "executing"}
             => work'[c] = work[c]]_vars
  BY <1>1
<1> QED
  BY <1>2, Invariance, PTL DEF Spec, NoJobBegunLate

===============================================================================
