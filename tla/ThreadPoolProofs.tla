-------------------------- MODULE ThreadPoolProofs --------------------------
(***************************************************************************)
(* Proofs about ThreadPool, for any set of workers, any set of connections *)
(* and any bounds.  The inductive invariant IInv says where a thread       *)
(* number can be: in at most one place, and only while its worker waits.   *)
(***************************************************************************)
EXTENDS ThreadPool, SequenceTheorems, FiniteSetTheorems, TLAPS

Distinct(s) == \A i, j \in 1..Len(s) : s[i] = s[j] => i = j

(* The locals of main's loop body hold values exactly while it runs.       *)
MainControl ==
    /\ mainPc \in {"drain", "resend"} <=> picked # NoWorker
    /\ mainPc \in {"accept", "recv"} => drained = <<>>
    /\ mainPc = "accept" <=> incoming = NoConn

(* No thread number is in two places.                                      *)
NumbersUnique ==
    /\ Distinct(readyQ)
    /\ Distinct(drained)
    /\ \A w \in Worker : ~(InSeq(w, readyQ) /\ InSeq(w, drained))
    /\ ~InSeq(picked, readyQ)
    /\ ~InSeq(picked, drained)

(* A worker has a job exactly while it processes.                          *)
JobsControl == \A w \in Worker : workerPc[w] # "process" <=> job[w] = NoJob

SpareNumber ==
    mainPc = "resend" /\ ~overloaded => readyQ # <<>> \/ drained # <<>>

IInv == /\ TypeOK
        /\ MainControl
        /\ NumbersUnique
        /\ JobsControl
        /\ ReadyMeansWaiting
        /\ OneStreamAtATime
        /\ SpareNumber
-----------------------------------------------------------------------------
(* Sequences of thread numbers.                                            *)

(* Sending a number adds that number and no other.                         *)
LEMMA InAppend ==
    ASSUME NEW S, NEW s \in Seq(S), NEW e \in S, NEW w
    PROVE  InSeq(w, Append(s, e)) <=> InSeq(w, s) \/ w = e
  BY AppendProperties DEF InSeq

(* Receiving a number takes the head out and leaves the others.            *)
LEMMA InHeadTail ==
    ASSUME NEW S, NEW s \in Seq(S), s # <<>>, NEW w
    PROVE  InSeq(w, s) <=> w = Head(s) \/ InSeq(w, Tail(s))
<1>1. /\ Len(s) \in Nat \ {0}
      /\ Head(s) = s[1]
      /\ Len(Tail(s)) = Len(s) - 1
      /\ \A i \in 1..Len(Tail(s)) : Tail(s)[i] = s[i + 1]
  BY EmptySeq, HeadTailProperties
<1>2. InSeq(w, s) => w = Head(s) \/ InSeq(w, Tail(s))
  <2> SUFFICES ASSUME NEW i \in 1..Len(s), s[i] = w, i # 1
               PROVE  InSeq(w, Tail(s))
    BY <1>1 DEF InSeq
  <2>1. i - 1 \in 1..Len(Tail(s)) /\ Tail(s)[i - 1] = w
    BY <1>1
  <2> QED BY <2>1 DEF InSeq
<1>3. w = Head(s) => InSeq(w, s)
  BY <1>1 DEF InSeq
<1>4. InSeq(w, Tail(s)) => InSeq(w, s)
  <2> SUFFICES ASSUME NEW i \in 1..Len(Tail(s)), Tail(s)[i] = w
               PROVE  InSeq(w, s)
    BY DEF InSeq
  <2>1. i + 1 \in 1..Len(s) /\ s[i + 1] = w
    BY <1>1
  <2> QED BY <2>1 DEF InSeq
<1> QED BY <1>2, <1>3, <1>4

(* Sending a number that is not in the channel keeps the numbers distinct. *)
LEMMA DistinctAppend ==
    ASSUME NEW S, NEW s \in Seq(S), NEW e \in S, Distinct(s), ~InSeq(e, s)
    PROVE  Distinct(Append(s, e))
  BY AppendProperties, LenProperties DEF Distinct, InSeq

(* Receiving from distinct numbers leaves distinct ones, without the head. *)
LEMMA DistinctTail ==
    ASSUME NEW S, NEW s \in Seq(S), s # <<>>, Distinct(s)
    PROVE  Distinct(Tail(s)) /\ ~InSeq(Head(s), Tail(s))
<1>1. /\ Len(s) \in Nat \ {0}
      /\ Head(s) = s[1]
      /\ Len(Tail(s)) = Len(s) - 1
      /\ \A i \in 1..Len(Tail(s)) : Tail(s)[i] = s[i + 1]
  BY EmptySeq, HeadTailProperties
<1> QED BY <1>1 DEF Distinct, InSeq

(* An empty channel holds no number.                                       *)
LEMMA EmptyChannel == Distinct(<<>>) /\ \A w : ~InSeq(w, <<>>)
  BY DEF Distinct, InSeq
-----------------------------------------------------------------------------
(* The invariant holds initially.                                          *)
LEMMA IInvInit == Init => IInv
<1> SUFFICES ASSUME Init PROVE IInv
  OBVIOUS
<1>1. TypeOK
  <2>1. drained \in Seq(Worker) /\ readyQ \in Seq(Worker)
    BY EmptySeq DEF Init
  <2>2. <<>> \in Seq(Entry)
    BY EmptySeq
  <2> QED BY <2>1, <2>2 DEF Init, TypeOK, Replies
<1>2. MainControl
  BY DEF Init, MainControl
<1>3. NumbersUnique
  BY EmptyChannel DEF Init, NumbersUnique
<1>4. JobsControl
  BY DEF Init, JobsControl
<1>5. ReadyMeansWaiting
  BY EmptyChannel, ConstantsAssumption DEF Init, ReadyMeansWaiting, NumberOut
<1>6. OneStreamAtATime
  BY DEF Init, OneStreamAtATime
<1>7. SpareNumber
  BY DEF Init, SpareNumber
<1> QED BY <1>1, <1>2, <1>3, <1>4, <1>5, <1>6, <1>7 DEF IInv

(* A client's step leaves the threads and their channels alone.            *)
LEMMA IInvConnect ==
    ASSUME IInv, NEW c \in Conn, NEW k \in RequestKinds, Connect(c, k)
    PROVE  IInv'
<1> USE DEF Connect, mainVars, workerVars
<1>1. TypeOK'
  BY ConstantsAssumption DEF IInv, TypeOK
<1>2. MainControl' /\ SpareNumber'
  BY DEF IInv, MainControl, SpareNumber
<1>3. NumbersUnique'
  BY DEF IInv, NumbersUnique
<1>4. JobsControl'
  BY DEF IInv, JobsControl
<1>5. ReadyMeansWaiting'
  BY DEF IInv, ReadyMeansWaiting, NumberOut, Waiting
<1>6. OneStreamAtATime'
  BY DEF IInv, OneStreamAtATime
<1> QED BY <1>1, <1>2, <1>3, <1>4, <1>5, <1>6 DEF IInv

(* Accepting a connection, or failing to, only changes main's locals.      *)
LEMMA IInvAccept ==
    ASSUME IInv, (\E c \in Conn : Accept(c)) \/ AcceptFails
    PROVE  IInv'
<1> USE DEF Accept, AcceptFails, workerVars, clientVars
<1>1. TypeOK'
  BY ConstantsAssumption DEF IInv, TypeOK
<1>2. MainControl' /\ SpareNumber'
  BY ConstantsAssumption DEF IInv, MainControl, SpareNumber
<1>3. NumbersUnique'
  BY DEF IInv, NumbersUnique
<1>4. JobsControl'
  BY DEF IInv, JobsControl
<1>5. ReadyMeansWaiting'
  BY DEF IInv, ReadyMeansWaiting, NumberOut, Waiting
<1>6. OneStreamAtATime'
  BY DEF IInv, OneStreamAtATime
<1> QED BY <1>1, <1>2, <1>3, <1>4, <1>5, <1>6 DEF IInv

(* Popping a thread moves its number from the channel to `thread_num`.     *)
LEMMA IInvRecvReady ==
    ASSUME IInv, RecvReady
    PROVE  IInv'
<1> USE DEF RecvReady, workerVars, clientVars
<1>0. /\ readyQ \in Seq(Worker) /\ readyQ # <<>>
      /\ Head(readyQ) \in Worker /\ Tail(readyQ) \in Seq(Worker)
  BY HeadTailProperties DEF IInv, TypeOK
<1>1. TypeOK'
  BY <1>0 DEF IInv, TypeOK
<1>2. MainControl' /\ SpareNumber'
  BY <1>0, ConstantsAssumption DEF IInv, MainControl, SpareNumber
<1>3. NumbersUnique'
  <2>1. Distinct(readyQ') /\ ~InSeq(picked', readyQ')
    BY <1>0, DistinctTail DEF IInv, NumbersUnique
  <2>2. \A w \in Worker : InSeq(w, readyQ') => InSeq(w, readyQ)
    BY <1>0, InHeadTail
  <2>3. drained' = <<>>
    BY DEF IInv, MainControl
  <2> QED BY <2>1, <2>2, <2>3, EmptyChannel DEF NumbersUnique
<1>4. JobsControl'
  BY DEF IInv, JobsControl
<1>5. ReadyMeansWaiting'
  <2>1. \A w \in Worker : InSeq(w, readyQ) <=> w = picked' \/ InSeq(w, readyQ')
    BY <1>0, InHeadTail
  <2> QED BY <2>1 DEF IInv, ReadyMeansWaiting, NumberOut, Waiting
<1>6. OneStreamAtATime'
  BY DEF IInv, OneStreamAtATime
<1> QED BY <1>1, <1>2, <1>3, <1>4, <1>5, <1>6 DEF IInv

(* Draining moves a number from the channel to the Vec.                    *)
LEMMA IInvDrainOne ==
    ASSUME IInv, DrainOne
    PROVE  IInv'
<1> USE DEF DrainOne, workerVars, clientVars
<1>0. /\ readyQ \in Seq(Worker) /\ readyQ # <<>>
      /\ drained \in Seq(Worker)
      /\ Head(readyQ) \in Worker /\ Tail(readyQ) \in Seq(Worker)
      /\ drained' \in Seq(Worker)
  BY HeadTailProperties, AppendProperties DEF IInv, TypeOK
<1>a. \A w : InSeq(w, readyQ) <=> w = Head(readyQ) \/ InSeq(w, readyQ')
  BY <1>0, InHeadTail
<1>b. \A w : InSeq(w, drained') <=> InSeq(w, drained) \/ w = Head(readyQ)
  BY <1>0, InAppend
<1>1. TypeOK'
  BY <1>0 DEF IInv, TypeOK
<1>2. MainControl' /\ SpareNumber'
  BY DEF IInv, MainControl, SpareNumber
<1>3. NumbersUnique'
  <2>1. Distinct(readyQ') /\ ~InSeq(Head(readyQ), readyQ')
    BY <1>0, DistinctTail DEF IInv, NumbersUnique
  <2>2. Distinct(drained')
    BY <1>0, <1>a, DistinctAppend DEF IInv, NumbersUnique
  <2> QED BY <1>a, <1>b, <2>1, <2>2 DEF IInv, NumbersUnique
<1>4. JobsControl'
  BY DEF IInv, JobsControl
<1>5. ReadyMeansWaiting'
  BY <1>a, <1>b DEF IInv, ReadyMeansWaiting, NumberOut, Waiting
<1>6. OneStreamAtATime'
  BY DEF IInv, OneStreamAtATime
<1> QED BY <1>1, <1>2, <1>3, <1>4, <1>5, <1>6 DEF IInv

(* The verdict changes no number.                                          *)
LEMMA IInvDrainEnd ==
    ASSUME IInv, DrainEnd
    PROVE  IInv'
<1> USE DEF DrainEnd, workerVars, clientVars
<1>1. TypeOK'
  BY DEF IInv, TypeOK, Overload
<1>2. MainControl' /\ SpareNumber'
  BY DEF IInv, MainControl, SpareNumber, Overload
<1>3. NumbersUnique'
  BY DEF IInv, NumbersUnique
<1>4. JobsControl'
  BY DEF IInv, JobsControl
<1>5. ReadyMeansWaiting'
  BY DEF IInv, ReadyMeansWaiting, NumberOut, Waiting
<1>6. OneStreamAtATime'
  BY DEF IInv, OneStreamAtATime
<1> QED BY <1>1, <1>2, <1>3, <1>4, <1>5, <1>6 DEF IInv

(* Refilling moves a number from the Vec back to the channel.              *)
LEMMA IInvResendOne ==
    ASSUME IInv, ResendOne
    PROVE  IInv'
<1> USE DEF ResendOne, workerVars, clientVars
<1>0. /\ drained \in Seq(Worker) /\ drained # <<>>
      /\ readyQ \in Seq(Worker)
      /\ Head(drained) \in Worker /\ Tail(drained) \in Seq(Worker)
      /\ readyQ' \in Seq(Worker) /\ readyQ' # <<>>
  BY HeadTailProperties, AppendProperties DEF IInv, TypeOK
<1>a. \A w : InSeq(w, drained) <=> w = Head(drained) \/ InSeq(w, drained')
  BY <1>0, InHeadTail
<1>b. \A w : InSeq(w, readyQ') <=> InSeq(w, readyQ) \/ w = Head(drained)
  BY <1>0, InAppend
<1>1. TypeOK'
  BY <1>0 DEF IInv, TypeOK
<1>2. MainControl' /\ SpareNumber'
  BY <1>0 DEF IInv, MainControl, SpareNumber
<1>3. NumbersUnique'
  <2>1. Distinct(drained') /\ ~InSeq(Head(drained), drained')
    BY <1>0, DistinctTail DEF IInv, NumbersUnique
  <2>2. Distinct(readyQ')
    BY <1>0, <1>a, DistinctAppend DEF IInv, NumbersUnique
  <2> QED BY <1>a, <1>b, <2>1, <2>2 DEF IInv, NumbersUnique
<1>4. JobsControl'
  BY DEF IInv, JobsControl
<1>5. ReadyMeansWaiting'
  BY <1>a, <1>b DEF IInv, ReadyMeansWaiting, NumberOut, Waiting
<1>6. OneStreamAtATime'
  BY DEF IInv, OneStreamAtATime
<1> QED BY <1>1, <1>2, <1>3, <1>4, <1>5, <1>6 DEF IInv

(* The stream goes to a worker that waits for it: main never finds it dead *)
(* and never queues a second stream.                                       *)
LEMMA IInvDispatch ==
    ASSUME IInv, Dispatch
    PROVE  IInv'
<1> USE DEF Dispatch, EndIteration, workerVars
<1> DEFINE entry == [conn |-> incoming, overloaded |-> overloaded]
<1>0. /\ picked \in Worker
      /\ workerPc[picked] = "recv" /\ streamQ[picked] = <<>>
  BY DEF IInv, TypeOK, MainControl, ReadyMeansWaiting, NumberOut, Waiting
<1>a. /\ streamQ' = [streamQ EXCEPT ![picked] = Append(@, entry)]
      /\ UNCHANGED reply
  BY <1>0
<1>b. /\ entry \in Entry
      /\ Append(<<>>, entry) \in Seq(Entry)
      /\ Append(<<>>, entry) # <<>>
      /\ Len(Append(<<>>, entry)) = 1
  <2>1. entry \in Entry
    BY DEF IInv, TypeOK, MainControl, Entry
  <2> HIDE DEF entry
  <2> QED BY <2>1, EmptySeq, AppendProperties
<1>c. streamQ' = [streamQ EXCEPT ![picked] = Append(<<>>, entry)]
  BY <1>0, <1>a
<1> HIDE DEF entry
<1>1. TypeOK'
  BY <1>a, <1>b, <1>c DEF IInv, TypeOK
<1>2. MainControl' /\ SpareNumber'
  BY DEF IInv, MainControl, SpareNumber
<1>3. NumbersUnique'
  <2>1. ~InSeq(NoWorker, readyQ)
    BY ConstantsAssumption, ElementOfSeq DEF InSeq, IInv, TypeOK
  <2> QED BY <2>1, EmptyChannel DEF IInv, NumbersUnique
<1>4. JobsControl'
  BY DEF IInv, JobsControl
<1>5. ReadyMeansWaiting'
  <2> SUFFICES ASSUME NEW w \in Worker, NumberOut(w)'
               PROVE  Waiting(w)'
    BY DEF ReadyMeansWaiting
  <2>1. InSeq(w, readyQ)
    BY ConstantsAssumption, EmptyChannel DEF NumberOut
  <2>2. w # picked
    BY <2>1 DEF IInv, NumbersUnique
  <2> QED
    BY <1>c, <2>1, <2>2 DEF IInv, TypeOK, ReadyMeansWaiting, NumberOut, Waiting
<1>6. OneStreamAtATime'
  BY <1>0, <1>b, <1>c DEF IInv, TypeOK, OneStreamAtATime
<1> QED BY <1>1, <1>2, <1>3, <1>4, <1>5, <1>6 DEF IInv

(* After a failed accept the popped number is forgotten.                   *)
LEMMA IInvDispatchAcceptError ==
    ASSUME IInv, DispatchAcceptError
    PROVE  IInv'
<1> USE DEF DispatchAcceptError, EndIteration, workerVars, clientVars
<1>1. TypeOK'
  BY DEF IInv, TypeOK
<1>2. MainControl' /\ SpareNumber'
  BY DEF IInv, MainControl, SpareNumber
<1>3. NumbersUnique'
  <2>1. ~InSeq(NoWorker, readyQ)
    BY ConstantsAssumption, ElementOfSeq DEF InSeq, IInv, TypeOK
  <2> QED BY <2>1, EmptyChannel DEF IInv, NumbersUnique
<1>4. JobsControl'
  BY DEF IInv, JobsControl
<1>5. ReadyMeansWaiting'
  BY ConstantsAssumption DEF IInv, ReadyMeansWaiting, NumberOut, Waiting
<1>6. OneStreamAtATime'
  BY DEF IInv, OneStreamAtATime
<1> QED BY <1>1, <1>2, <1>3, <1>4, <1>5, <1>6 DEF IInv

(* A worker sends its number when nobody has it and it has no stream.      *)
LEMMA IInvSendReady ==
    ASSUME IInv, NEW v \in Worker, SendReady(v)
    PROVE  IInv'
<1> USE DEF SendReady, mainVars, clientVars
<1>0. /\ readyQ \in Seq(Worker) /\ readyQ' \in Seq(Worker)
      /\ readyQ' # <<>>
      /\ streamQ[v] = <<>>
      /\ ~NumberOut(v)
  <2>1. readyQ \in Seq(Worker)
    BY DEF IInv, TypeOK
  <2>2. readyQ' \in Seq(Worker) /\ readyQ' # <<>>
    BY <2>1, AppendProperties
  <2>3. streamQ[v] = <<>>
    BY DEF IInv, OneStreamAtATime
  <2>4. ~NumberOut(v)
    BY DEF IInv, ReadyMeansWaiting, Waiting
  <2> QED BY <2>1, <2>2, <2>3, <2>4
<1>a. \A w : InSeq(w, readyQ') <=> InSeq(w, readyQ) \/ w = v
  BY <1>0, InAppend
<1>1. TypeOK'
  BY <1>0 DEF IInv, TypeOK
<1>2. MainControl' /\ SpareNumber'
  BY <1>0 DEF IInv, MainControl, SpareNumber
<1>3. NumbersUnique'
  <2>1. Distinct(readyQ')
    BY <1>0, DistinctAppend DEF IInv, NumbersUnique, NumberOut
  <2> QED BY <1>0, <1>a, <2>1 DEF IInv, NumbersUnique, NumberOut
<1>4. JobsControl'
  BY DEF IInv, TypeOK, JobsControl
<1>5. ReadyMeansWaiting'
  BY <1>0, <1>a DEF IInv, TypeOK, ReadyMeansWaiting, NumberOut, Waiting
<1>6. OneStreamAtATime'
  BY <1>0 DEF IInv, TypeOK, OneStreamAtATime
<1> QED BY <1>1, <1>2, <1>3, <1>4, <1>5, <1>6 DEF IInv

(* A worker takes its only stream; nobody has its number then.             *)
LEMMA IInvRecvStream ==
    ASSUME IInv, NEW v \in Worker, RecvStream(v)
    PROVE  IInv'
<1> USE DEF RecvStream, mainVars, clientVars
<1>0. /\ streamQ[v] \in Seq(Entry) /\ streamQ[v] # <<>>
      /\ Len(streamQ[v]) = 1
      /\ Head(streamQ[v]) \in Entry
      /\ Tail(streamQ[v]) = <<>>
      /\ ~NumberOut(v)
  <2>1. /\ streamQ[v] \in Seq(Entry) /\ streamQ[v] # <<>>
        /\ Len(streamQ[v]) = 1 /\ ~NumberOut(v)
    BY DEF IInv, TypeOK, OneStreamAtATime, ReadyMeansWaiting, Waiting
  <2>2. /\ Head(streamQ[v]) \in Entry
        /\ Tail(streamQ[v]) \in Seq(Entry)
        /\ Len(Tail(streamQ[v])) = 0
    BY <2>1, HeadTailProperties
  <2>3. Tail(streamQ[v]) = <<>>
    BY <2>2, EmptySeq
  <2> QED BY <2>1, <2>2, <2>3
<1>a. NoJob \notin Entry
  BY ConstantsAssumption DEF NoJob, Entry
<1>b. streamQ' = [streamQ EXCEPT ![v] = <<>>]
  BY <1>0
<1>c. <<>> \in Seq(Entry)
  BY EmptySeq
<1>1. TypeOK'
  BY <1>0, <1>b, <1>c DEF IInv, TypeOK
<1>2. MainControl' /\ SpareNumber'
  BY DEF IInv, MainControl, SpareNumber
<1>3. NumbersUnique'
  BY DEF IInv, NumbersUnique
<1>4. JobsControl'
  BY <1>0, <1>a DEF IInv, TypeOK, JobsControl
<1>5. ReadyMeansWaiting'
  BY <1>0 DEF IInv, TypeOK, ReadyMeansWaiting, NumberOut, Waiting
<1>6. OneStreamAtATime'
  BY <1>b DEF IInv, TypeOK, OneStreamAtATime
<1> QED BY <1>1, <1>2, <1>3, <1>4, <1>5, <1>6 DEF IInv

(* A worker that ends a job, alive or not, has no number and no stream.    *)
LEMMA IInvEndJob ==
    ASSUME IInv, NEW v \in Worker, Finish(v) \/ Panic(v)
    PROVE  IInv'
<1> USE DEF Finish, Panic, mainVars
<1>0. /\ workerPc[v] = "process"
      /\ streamQ[v] = <<>>
      /\ ~NumberOut(v)
  BY DEF IInv, OneStreamAtATime, ReadyMeansWaiting, Waiting
<1>1. TypeOK'
  <2>1. \A k, over : Answer(k, over) \in Replies
    BY DEF Answer, Replies
  <2>2. "closed" \in Replies
    BY DEF Replies
  <2>3. reply' \in [Conn -> Replies]
    <3>1. PICK a \in Replies : reply' = [reply EXCEPT ![job[v].conn] = a]
      BY <2>1, <2>2
    <3>2. reply \in [Conn -> Replies]
      BY DEF IInv, TypeOK
    <3> QED BY <3>1, <3>2
  <2>4. job' = [job EXCEPT ![v] = NoJob]
    OBVIOUS
  <2>5. job' \in [Worker -> Entry \cup {NoJob}]
    BY <2>4 DEF IInv, TypeOK
  <2>6. workerPc' \in [Worker -> {"ready", "recv", "process", "dead"}]
    <3>1. workerPc \in [Worker -> {"ready", "recv", "process", "dead"}]
      BY DEF IInv, TypeOK
    <3> QED BY <3>1
  <2> QED BY <2>3, <2>5, <2>6 DEF IInv, TypeOK
<1>2. MainControl' /\ SpareNumber'
  BY DEF IInv, MainControl, SpareNumber
<1>3. NumbersUnique'
  BY DEF IInv, NumbersUnique
<1>4. JobsControl'
  BY DEF IInv, TypeOK, JobsControl
<1>5. ReadyMeansWaiting'
  BY <1>0 DEF IInv, TypeOK, ReadyMeansWaiting, NumberOut, Waiting
<1>6. OneStreamAtATime'
  BY <1>0 DEF IInv, TypeOK, OneStreamAtATime
<1> QED BY <1>1, <1>2, <1>3, <1>4, <1>5, <1>6 DEF IInv

(* A step of nobody keeps the invariant.                                   *)
LEMMA IInvStutter == ASSUME IInv, UNCHANGED vars PROVE IInv'
  BY DEF vars, mainVars, workerVars, clientVars, IInv, TypeOK, MainControl,
         NumbersUnique, JobsControl, ReadyMeansWaiting, OneStreamAtATime,
         SpareNumber, NumberOut, Waiting

(* Every step preserves the invariant.                                     *)
LEMMA IInvNext == IInv /\ [Next]_vars => IInv'
<1> SUFFICES ASSUME IInv, [Next]_vars PROVE IInv'
  OBVIOUS
<1>1. CASE MainStep
  BY <1>1, IInvAccept, IInvRecvReady, IInvDrainOne, IInvDrainEnd, IInvResendOne,
     IInvDispatch, IInvDispatchAcceptError DEF MainStep
<1>2. CASE AcceptFails
  BY <1>2, IInvAccept
<1>3. CASE \E w \in Worker : WorkerStep(w)
  BY <1>3, IInvSendReady, IInvRecvStream, IInvEndJob DEF WorkerStep
<1>4. CASE \E c \in Conn, k \in RequestKinds : Connect(c, k)
  BY <1>4, IInvConnect
<1>5. CASE UNCHANGED vars
  BY <1>5, IInvStutter
<1> QED BY <1>1, <1>2, <1>3, <1>4, <1>5 DEF Next

(* The inductive invariant holds always.                                   *)
LEMMA IInvAlways == Spec => []IInv
  BY IInvInit, IInvNext, PTL DEF Spec
-----------------------------------------------------------------------------
(* Every variable keeps its type, for any pool and any clients.            *)
THEOREM TypeCorrect == Spec => []TypeOK
<1>1. IInv => TypeOK
  BY DEF IInv
<1> QED BY <1>1, IInvAlways, PTL

(* A number on the ready list, drained or picked belongs to a worker that  *)
(* waits for a stream and has none (main.rs:93-105, pool.rs:34-35).        *)
THEOREM ReadyListSound == Spec => []ReadyMeansWaiting
<1>1. IInv => ReadyMeansWaiting
  BY DEF IInv
<1> QED BY <1>1, IInvAlways, PTL

(* No stream is ever queued behind another or behind a busy worker.        *)
THEOREM NoStreamQueued == Spec => []OneStreamAtATime
<1>1. IInv => OneStreamAtATime
  BY DEF IInv
<1> QED BY <1>1, IInvAlways, PTL

(* A verdict "not overloaded" still has a waiting worker behind it when    *)
(* the stream is dispatched (main.rs:99-105).                              *)
THEOREM SpareWorker == Spec => []SpareWorkerKept
<1>1. ASSUME NEW s \in Seq(Worker), s # <<>>
      PROVE  \E w \in Worker : InSeq(w, s)
  <2>1. Len(s) \in Nat \ {0} /\ s[1] \in Worker
    BY <1>1, EmptySeq, ElementOfSeq
  <2> QED BY <2>1 DEF InSeq
<1>2. IInv => SpareWorkerKept
  <2> SUFFICES ASSUME IInv, mainPc = "resend", ~overloaded
               PROVE  \E w \in Worker \ {picked} :
                          Waiting(w) /\ (InSeq(w, readyQ) \/ InSeq(w, drained))
    BY DEF SpareWorkerKept
  <2>1. PICK w \in Worker : InSeq(w, readyQ) \/ InSeq(w, drained)
    BY <1>1 DEF IInv, TypeOK, SpareNumber
  <2>2. w # picked
    BY <2>1 DEF IInv, NumbersUnique
  <2>3. Waiting(w)
    BY <2>1 DEF IInv, ReadyMeansWaiting, NumberOut
  <2> QED BY <2>1, <2>2, <2>3
<1> QED BY <1>2, IInvAlways, PTL
-----------------------------------------------------------------------------
(***************************************************************************)
(* Proofs that ThreadPool implements ConnectionDispatch, and that it never *)
(* drops a request it could answer.  Both need to know where a connection  *)
(* can be: one that no client has opened is nowhere, and main does not     *)
(* hold one that is still in the backlog.  The refinement needs what each  *)
(* step does to the workers that are stranded; counted, that is what       *)
(* failed accepts cost and how far the overload verdict can be trusted.    *)
(***************************************************************************)

(* What the variables of ConnectionDispatch stand for.                     *)
Waits == backlog \cup ({incoming} \cap Conn)
Given(w) == IF streamQ[w] # <<>> THEN Head(streamQ[w]).conn ELSE job[w].conn
Retired == {w \in Worker : workerPc[w] = "dead"} \cup Stranded
Settled == {c \in Conn : reply[c] # "none"}

(* A connection nobody has opened is not anywhere in the server.           *)
UnopenedIsNowhere ==
    \A c \in Conn : kind[c] = "none" =>
        /\ c \notin Waits
        /\ c \notin Settled
        /\ \A w \in Worker : Given(w) # c

CInv == /\ incoming \notin backlog
        /\ UnopenedIsNowhere
        /\ GoodRequestNotDropped

Inv == IInv /\ CInv
-----------------------------------------------------------------------------
(* Steps that move no connection and no number out of sight.               *)

(* The numbers that are out decide who is stranded.                        *)
LEMMA StrandedSame ==
    ASSUME \A w \in Worker : Waiting(w)' /\ ~NumberOut(w)' <=>
                             Waiting(w) /\ ~NumberOut(w)
    PROVE  Stranded' = Stranded
  BY DEF Stranded

(* Moving a number between the channel and main leaves it out.             *)
LEMMA StrandedRecvReady == ASSUME IInv, RecvReady PROVE Stranded' = Stranded
<1>1. readyQ \in Seq(Worker) /\ readyQ # <<>> /\ picked = NoWorker
  BY DEF IInv, TypeOK, MainControl, RecvReady
<1>2. \A w : InSeq(w, readyQ) <=> w = picked' \/ InSeq(w, readyQ')
  BY <1>1, InHeadTail DEF RecvReady
<1>3. \A w \in Worker : NumberOut(w)' <=> NumberOut(w)
  BY <1>1, <1>2, ConstantsAssumption DEF NumberOut, RecvReady
<1>4. \A w \in Worker : Waiting(w)' <=> Waiting(w)
  BY DEF Waiting, RecvReady, workerVars
<1> QED BY <1>3, <1>4, StrandedSame

(* Draining a number strands no worker.                                    *)
LEMMA StrandedDrainOne == ASSUME IInv, DrainOne PROVE Stranded' = Stranded
<1>1. /\ readyQ \in Seq(Worker) /\ readyQ # <<>>
      /\ drained \in Seq(Worker) /\ Head(readyQ) \in Worker
  BY HeadTailProperties DEF IInv, TypeOK, DrainOne
<1>2. \A w : InSeq(w, readyQ) <=> w = Head(readyQ) \/ InSeq(w, readyQ')
  BY <1>1, InHeadTail DEF DrainOne
<1>3. \A w : InSeq(w, drained') <=> InSeq(w, drained) \/ w = Head(readyQ)
  BY <1>1, InAppend DEF DrainOne
<1>4. \A w \in Worker : NumberOut(w)' <=> NumberOut(w)
  BY <1>2, <1>3 DEF NumberOut, DrainOne
<1>5. \A w \in Worker : Waiting(w)' <=> Waiting(w)
  BY DEF Waiting, DrainOne, workerVars
<1> QED BY <1>4, <1>5, StrandedSame

(* Sending a number back strands no worker.                                *)
LEMMA StrandedResendOne == ASSUME IInv, ResendOne PROVE Stranded' = Stranded
<1>1. /\ drained \in Seq(Worker) /\ drained # <<>>
      /\ readyQ \in Seq(Worker) /\ Head(drained) \in Worker
  BY HeadTailProperties DEF IInv, TypeOK, ResendOne
<1>2. \A w : InSeq(w, drained) <=> w = Head(drained) \/ InSeq(w, drained')
  BY <1>1, InHeadTail DEF ResendOne
<1>3. \A w : InSeq(w, readyQ') <=> InSeq(w, readyQ) \/ w = Head(drained)
  BY <1>1, InAppend DEF ResendOne
<1>4. \A w \in Worker : NumberOut(w)' <=> NumberOut(w)
  BY <1>2, <1>3 DEF NumberOut, ResendOne
<1>5. \A w \in Worker : Waiting(w)' <=> Waiting(w)
  BY DEF Waiting, ResendOne, workerVars
<1> QED BY <1>4, <1>5, StrandedSame

(* Steps that only move numbers leave every connection where it is.        *)
LEMMA NumbersMove ==
    ASSUME IInv, CInv, RecvReady \/ DrainOne \/ DrainEnd \/ ResendOne
    PROVE  CInv' /\ UNCHANGED Dispatcher!vars /\ UNCHANGED Stranded
<1>1. /\ UNCHANGED <<incoming, backlog, kind, reply, streamQ, workerPc, job>>
  BY DEF RecvReady, DrainOne, DrainEnd, ResendOne, workerVars, clientVars
<1>2. Stranded' = Stranded
  <2>1. CASE DrainEnd
    BY <2>1 DEF Stranded, Waiting, NumberOut, DrainEnd, workerVars
  <2> QED BY <2>1, StrandedRecvReady, StrandedDrainOne, StrandedResendOne
<1>3. CInv'
  BY <1>1 DEF CInv, UnopenedIsNowhere, GoodRequestNotDropped, Waits, Given,
              Settled
<1>4. UNCHANGED Dispatcher!vars
  BY <1>1, <1>2 DEF Dispatcher!vars
<1> QED BY <1>2, <1>3, <1>4
-----------------------------------------------------------------------------
(* A client's connect is an arrival.                                       *)
LEMMA ConnectArrives ==
    ASSUME IInv, CInv, NEW c \in Conn, NEW k \in RequestKinds, Connect(c, k)
    PROVE  CInv' /\ Dispatcher!Arrive(c) /\ UNCHANGED Stranded
<1>1. /\ kind[c] = "none" /\ k \in AllKinds /\ k # "none"
      /\ kind' = [kind EXCEPT ![c] = k]
      /\ backlog' = backlog \cup {c}
      /\ UNCHANGED <<mainVars, readyQ, streamQ, workerVars, reply>>
  BY ConstantsAssumption DEF Connect, AllKinds
<1>2. c \notin Waits /\ c \notin Settled /\ \A w \in Worker : Given(w) # c
  BY <1>1 DEF CInv, UnopenedIsNowhere
<1>3. CInv'
  <2>1. incoming' \notin backlog'
    BY <1>1, <1>2 DEF CInv, mainVars, Waits
  <2>2. UnopenedIsNowhere'
    BY <1>1 DEF CInv, UnopenedIsNowhere, Waits, Given, Settled, mainVars,
                workerVars, IInv, TypeOK
  <2>3. GoodRequestNotDropped'
    BY <1>1, <1>2 DEF CInv, GoodRequestNotDropped, Settled, IInv, TypeOK
  <2> QED BY <2>1, <2>2, <2>3 DEF CInv
<1>4. UNCHANGED Stranded
  BY <1>1 DEF Stranded, Waiting, NumberOut, mainVars, workerVars
<1>5. Dispatcher!Arrive(c)
  BY <1>1, <1>2, <1>4 DEF Dispatcher!Arrive, Waits, Given, Settled, mainVars,
                          workerVars
<1> QED BY <1>3, <1>4, <1>5

(* main takes a connection out of the backlog and holds it: it still waits. *)
LEMMA AcceptStutters ==
    ASSUME IInv, CInv, (\E c \in Conn : Accept(c)) \/ AcceptFails
    PROVE  CInv' /\ UNCHANGED Dispatcher!vars /\ UNCHANGED Stranded
<1>1. /\ UNCHANGED <<picked, drained, readyQ, streamQ, workerVars, kind, reply>>
      /\ incoming = NoConn
  BY DEF Accept, AcceptFails, clientVars, IInv, MainControl
<1>2. Waits' = Waits
  BY <1>1, ConstantsAssumption DEF Waits, Accept, AcceptFails, clientVars
<1>3. CInv'
  <2>1. incoming' \notin backlog'
    BY ConstantsAssumption
    DEF Accept, AcceptFails, clientVars, IInv, TypeOK
  <2>2. UnopenedIsNowhere' /\ GoodRequestNotDropped'
    BY <1>1, <1>2 DEF CInv, UnopenedIsNowhere, GoodRequestNotDropped, Given,
                      Settled, workerVars
  <2> QED BY <2>1, <2>2 DEF CInv
<1>4. UNCHANGED Stranded
  BY <1>1 DEF Stranded, Waiting, NumberOut, workerVars
<1>5. UNCHANGED Dispatcher!vars
  BY <1>1, <1>2, <1>4 DEF Dispatcher!vars, Waits, workerVars
<1> QED BY <1>3, <1>4, <1>5
-----------------------------------------------------------------------------
(* main hands the connection it holds to the thread it has popped: that    *)
(* worker is alive, serves nobody, and is not stranded.                    *)
LEMMA DispatchAssigns ==
    ASSUME IInv, CInv, Dispatch,
           NEW p \in Worker, p = picked, NEW c \in Conn, c = incoming
    PROVE  CInv' /\ Dispatcher!Assign(p, c) /\ UNCHANGED Stranded
<1> DEFINE entry == [conn |-> incoming, overloaded |-> overloaded]
<1>1. /\ picked \in Worker /\ incoming \in Conn
      /\ workerPc[picked] = "recv" /\ streamQ[picked] = <<>>
      /\ job[picked] = NoJob /\ NumberOut(picked)
  BY DEF Dispatch, IInv, TypeOK, MainControl, ReadyMeansWaiting, NumberOut,
         Waiting, JobsControl
<1>2. /\ UNCHANGED <<drained, readyQ, workerPc, job, kind, backlog, reply>>
      /\ incoming' = NoConn /\ picked' = NoWorker
      /\ streamQ' = [streamQ EXCEPT ![picked] = Append(<<>>, entry)]
  BY <1>1 DEF Dispatch, EndIteration, workerVars
<1>3. entry \in Entry
  BY <1>1 DEF IInv, TypeOK, Entry
<1>4. Append(<<>>, entry) # <<>> /\ Head(Append(<<>>, entry)) = entry
  <2> HIDE DEF entry
  <2> QED BY <1>3, EmptySeq, AppendProperties, HeadTailProperties
<1>5. \A w \in Worker : Given(w)' = IF w = picked THEN incoming ELSE Given(w)
  <2> SUFFICES ASSUME NEW w \in Worker
               PROVE  Given(w)' = IF w = picked THEN incoming ELSE Given(w)
    OBVIOUS
  <2>1. CASE w = picked
    <3>1. streamQ'[w] = Append(<<>>, entry)
      BY <2>1, <1>1, <1>2 DEF IInv, TypeOK
    <3>2. Head(streamQ'[w]).conn = incoming
      BY <3>1, <1>4
    <3> QED BY <2>1, <3>1, <3>2, <1>4 DEF Given
  <2>2. CASE w # picked
    BY <2>2, <1>2 DEF Given, IInv, TypeOK
  <2> QED BY <2>1, <2>2
<1>6. Waits' = Waits \ {incoming} /\ incoming \in Waits
  BY <1>1, <1>2, ConstantsAssumption DEF Waits, CInv
<1>7. CInv'
  <2>1. incoming' \notin backlog'
    BY <1>2, ConstantsAssumption DEF IInv, TypeOK
  <2>2. UnopenedIsNowhere' /\ GoodRequestNotDropped'
    BY <1>2, <1>5, <1>6 DEF CInv, UnopenedIsNowhere, GoodRequestNotDropped,
                            Settled
  <2> QED BY <2>1, <2>2 DEF CInv
<1>8. Stranded' = Stranded
  <2>1. \A w \in Worker : w # picked => (NumberOut(w)' <=> NumberOut(w))
    BY <1>2, ConstantsAssumption DEF NumberOut
  <2>2. \A w \in Worker : w # picked => (Waiting(w)' <=> Waiting(w))
    BY <1>2 DEF Waiting, IInv, TypeOK
  <2>3. ~Waiting(p)'
    BY <1>1, <1>2, <1>4 DEF Waiting, IInv, TypeOK
  <2> QED BY <1>1, <2>1, <2>2, <2>3, StrandedSame
<1>9. Dispatcher!Assign(p, c)
  <2>1. picked \notin Retired
    BY <1>1 DEF Retired, Stranded
  <2>2. Given(picked) = NoConn
    BY <1>1 DEF Given, NoJob
  <2>3. [w \in Worker |-> Given(w)]'
            = [[w \in Worker |-> Given(w)] EXCEPT ![picked] = incoming]
    BY <1>5
  <2> QED
    BY <1>1, <1>2, <1>6, <1>8, <2>1, <2>2, <2>3
    DEF Dispatcher!Assign, Waits, Given, Retired
<1> QED BY <1>7, <1>8, <1>9

(* The thread popped for a failed accept is lost while it serves nobody.   *)
LEMMA AcceptErrorRetires ==
    ASSUME IInv, CInv, NEW p \in Worker, p = picked, DispatchAcceptError
    PROVE  /\ CInv' /\ Dispatcher!Retire(p)
           /\ Stranded' = Stranded \cup {p} /\ p \notin Stranded
<1>1. /\ picked \in Worker /\ Waiting(picked) /\ NumberOut(picked)
      /\ job[picked] = NoJob /\ workerPc[picked] # "dead"
      /\ drained = <<>> /\ ~InSeq(picked, readyQ)
  BY DEF DispatchAcceptError, IInv, TypeOK, MainControl, ReadyMeansWaiting,
         NumberOut, Waiting, JobsControl, NumbersUnique
<1>2. /\ UNCHANGED <<drained, readyQ, streamQ, workerPc, job, kind, backlog,
                     reply>>
      /\ incoming = AcceptError /\ incoming' = NoConn /\ picked' = NoWorker
  BY DEF DispatchAcceptError, EndIteration, workerVars, clientVars
<1>3. Waits' = Waits
  BY <1>2, ConstantsAssumption DEF Waits
<1>4. CInv'
  <2>1. incoming' \notin backlog'
    BY <1>2, ConstantsAssumption DEF IInv, TypeOK
  <2>2. UnopenedIsNowhere' /\ GoodRequestNotDropped'
    BY <1>2, <1>3 DEF CInv, UnopenedIsNowhere, GoodRequestNotDropped, Given,
                      Settled
  <2> QED BY <2>1, <2>2 DEF CInv
<1>5. Stranded' = Stranded \cup {p}
  <2>1. \A w \in Worker : w # picked => (NumberOut(w)' <=> NumberOut(w))
    BY <1>2, ConstantsAssumption DEF NumberOut
  <2>2. ~NumberOut(p)'
    BY <1>1, <1>2, EmptyChannel, ConstantsAssumption DEF NumberOut
  <2>3. \A w \in Worker : Waiting(w)' <=> Waiting(w)
    BY <1>2 DEF Waiting
  <2> QED BY <1>1, <2>1, <2>2, <2>3 DEF Stranded
<1>6. Dispatcher!Retire(p)
  <2>1. picked \notin Retired
    BY <1>1 DEF Retired, Stranded
  <2>2. Given(picked) = NoConn
    BY <1>1 DEF Given, Waiting, NoJob
  <2>3. Retired' = Retired \cup {p}
    BY <1>2, <1>5 DEF Retired
  <2> QED
    BY <1>1, <1>2, <1>3, <2>1, <2>2, <2>3
    DEF Dispatcher!Retire, Waits, Given, Retired
<1> QED BY <1>1, <1>4, <1>5, <1>6 DEF Stranded
-----------------------------------------------------------------------------
(* A worker that sends its number, or takes the stream it was given, serves *)
(* what it served before.                                                  *)
LEMMA SendReadyStutters ==
    ASSUME IInv, CInv, NEW v \in Worker, SendReady(v)
    PROVE  CInv' /\ UNCHANGED Dispatcher!vars /\ UNCHANGED Stranded
<1>1. /\ UNCHANGED <<mainVars, streamQ, job, clientVars>>
      /\ readyQ \in Seq(Worker)
      /\ readyQ' = Append(readyQ, v)
      /\ workerPc[v] = "ready"
      /\ workerPc' = [workerPc EXCEPT ![v] = "recv"]
  BY DEF SendReady, IInv, TypeOK
<1>2. \A w : InSeq(w, readyQ') <=> InSeq(w, readyQ) \/ w = v
  BY <1>1, InAppend
<1>3. CInv'
  BY <1>1 DEF CInv, UnopenedIsNowhere, GoodRequestNotDropped, Waits, Given,
              Settled, mainVars, clientVars
<1>4. Stranded' = Stranded
  <2>1. \A w \in Worker : w # v => (NumberOut(w)' <=> NumberOut(w))
    BY <1>1, <1>2 DEF NumberOut, mainVars
  <2>2. \A w \in Worker : w # v => (Waiting(w)' <=> Waiting(w))
    BY <1>1 DEF Waiting, IInv, TypeOK
  <2>3. ~Waiting(v) /\ NumberOut(v)'
    BY <1>1, <1>2 DEF Waiting, NumberOut
  <2> QED BY <2>1, <2>2, <2>3, StrandedSame
<1>5. {w \in Worker : workerPc[w] = "dead"}' = {w \in Worker : workerPc[w] = "dead"}
  BY <1>1 DEF IInv, TypeOK
<1>6. UNCHANGED Dispatcher!vars
  BY <1>1, <1>4, <1>5 DEF Dispatcher!vars, mainVars, clientVars
<1> QED BY <1>3, <1>4, <1>6

(* A worker that receives its stream had been given it: no step of the     *)
(* dispatcher.                                                             *)
LEMMA RecvStreamStutters ==
    ASSUME IInv, CInv, NEW v \in Worker, RecvStream(v)
    PROVE  CInv' /\ UNCHANGED Dispatcher!vars /\ UNCHANGED Stranded
<1>1. /\ UNCHANGED <<mainVars, readyQ, clientVars>>
      /\ workerPc[v] = "recv"
      /\ workerPc' = [workerPc EXCEPT ![v] = "process"]
      /\ streamQ[v] \in Seq(Entry) /\ streamQ[v] # <<>> /\ Len(streamQ[v]) = 1
      /\ job' = [job EXCEPT ![v] = Head(streamQ[v])]
      /\ streamQ' = [streamQ EXCEPT ![v] = Tail(streamQ[v])]
  BY DEF RecvStream, IInv, TypeOK, OneStreamAtATime
<1>2. Tail(streamQ[v]) = <<>>
  <2>1. Tail(streamQ[v]) \in Seq(Entry) /\ Len(Tail(streamQ[v])) = 0
    BY <1>1, HeadTailProperties
  <2> QED BY <2>1, EmptySeq
<1>3. \A w \in Worker : Given(w)' = Given(w)
  <2> SUFFICES ASSUME NEW w \in Worker PROVE Given(w)' = Given(w)
    OBVIOUS
  <2>1. CASE w = v
    BY <2>1, <1>1, <1>2 DEF Given, IInv, TypeOK
  <2>2. CASE w # v
    BY <2>2, <1>1 DEF Given, IInv, TypeOK
  <2> QED BY <2>1, <2>2
<1>4. CInv'
  BY <1>1, <1>3 DEF CInv, UnopenedIsNowhere, GoodRequestNotDropped, Waits,
                    Settled, mainVars, clientVars
<1>5. Stranded' = Stranded
  <2>1. \A w \in Worker : w # v => (Waiting(w)' <=> Waiting(w))
    BY <1>1 DEF Waiting, IInv, TypeOK
  <2>2. ~Waiting(v) /\ ~Waiting(v)'
    BY <1>1 DEF Waiting, IInv, TypeOK
  <2>3. \A w \in Worker : NumberOut(w)' <=> NumberOut(w)
    BY <1>1 DEF NumberOut, mainVars
  <2> QED BY <2>1, <2>2, <2>3, StrandedSame
<1>6. {w \in Worker : workerPc[w] = "dead"}' = {w \in Worker : workerPc[w] = "dead"}
  BY <1>1 DEF IInv, TypeOK
<1>7. UNCHANGED Dispatcher!vars
  BY <1>1, <1>3, <1>5, <1>6 DEF Dispatcher!vars, Given, mainVars, clientVars
<1> QED BY <1>4, <1>5, <1>7
-----------------------------------------------------------------------------
(* A worker that ends its job settles the connection it served, and is     *)
(* lost with it if processing panicked.                                    *)
LEMMA EndJobSettles ==
    ASSUME IInv, CInv, NEW v \in Worker, Finish(v) \/ Panic(v)
    PROVE  /\ CInv' /\ (Dispatcher!Settle(v) \/ Dispatcher!Crash(v))
           /\ UNCHANGED Stranded
<1> DEFINE c == job[v].conn
<1>1. /\ workerPc[v] = "process" /\ streamQ[v] = <<>>
      /\ job[v] \in Entry /\ c \in Conn
      /\ UNCHANGED <<mainVars, readyQ, streamQ, kind, backlog>>
      /\ job' = [job EXCEPT ![v] = NoJob]
  BY DEF Finish, Panic, IInv, TypeOK, OneStreamAtATime, JobsControl, Entry
<1>2. PICK a \in Replies \ {"none"} :
          /\ reply' = [reply EXCEPT ![c] = a]
          /\ kind[c] \in {"page", "load"} => a # "closed"
  <2>1. \A k, over : /\ Answer(k, over) \in Replies \ {"none"}
                     /\ k \in {"page", "load"} => Answer(k, over) # "closed"
    BY DEF Answer, Replies
  <2>2. CASE Finish(v)
    BY <2>1, <2>2 DEF Finish
  <2>3. CASE Panic(v)
    BY <2>3 DEF Panic, Replies
  <2> QED BY <2>2, <2>3
<1>3. Given(v) = c /\ c # NoConn
  BY <1>1, ConstantsAssumption DEF Given
<1>4. \A w \in Worker : Given(w)' = IF w = v THEN NoConn ELSE Given(w)
  <2> SUFFICES ASSUME NEW w \in Worker
               PROVE  Given(w)' = IF w = v THEN NoConn ELSE Given(w)
    OBVIOUS
  <2>1. CASE w = v
    BY <2>1, <1>1 DEF Given, NoJob, IInv, TypeOK
  <2>2. CASE w # v
    BY <2>2, <1>1 DEF Given, IInv, TypeOK
  <2> QED BY <2>1, <2>2
<1>5. Settled' = Settled \cup {c}
  BY <1>1, <1>2 DEF Settled, IInv, TypeOK
<1>6. Waits' = Waits
  BY <1>1 DEF Waits, mainVars
<1>7. CInv'
  <2>1. incoming' \notin backlog'
    BY <1>1 DEF CInv, mainVars
  <2>2. UnopenedIsNowhere'
    BY <1>1, <1>3, <1>4, <1>5, <1>6, ConstantsAssumption
    DEF CInv, UnopenedIsNowhere
  <2>3. GoodRequestNotDropped'
    BY <1>1, <1>2 DEF CInv, GoodRequestNotDropped, IInv, TypeOK
  <2> QED BY <2>1, <2>2, <2>3 DEF CInv
<1>8. /\ Finish(v) => workerPc' = [workerPc EXCEPT ![v] = "ready"]
      /\ Panic(v) => workerPc' = [workerPc EXCEPT ![v] = "dead"]
  BY DEF Finish, Panic
<1>9. Stranded' = Stranded
  <2>1. \A w \in Worker : w # v => (Waiting(w)' <=> Waiting(w))
    BY <1>1, <1>8 DEF Waiting, IInv, TypeOK
  <2>2. ~Waiting(v) /\ ~Waiting(v)'
    BY <1>1, <1>8 DEF Waiting, IInv, TypeOK
  <2>3. \A w \in Worker : NumberOut(w)' <=> NumberOut(w)
    BY <1>1 DEF NumberOut, mainVars
  <2> QED BY <2>1, <2>2, <2>3, StrandedSame
<1>10. [w \in Worker |-> Given(w)]'
           = [[w \in Worker |-> Given(w)] EXCEPT ![v] = NoConn]
  BY <1>4
<1>11. CASE Finish(v)
  <2>1. Retired' = Retired
    BY <1>1, <1>8, <1>9, <1>11 DEF Retired, IInv, TypeOK
  <2>2. Dispatcher!Settle(v)
    BY <1>3, <1>5, <1>6, <1>10, <2>1
    DEF Dispatcher!Settle, Waits, Given, Retired, Settled
  <2> QED BY <1>7, <1>9, <2>2
<1>12. CASE Panic(v)
  <2>1. Retired' = Retired \cup {v}
    BY <1>1, <1>8, <1>9, <1>12 DEF Retired, IInv, TypeOK
  <2>2. Dispatcher!Crash(v)
    BY <1>3, <1>5, <1>6, <1>10, <2>1
    DEF Dispatcher!Crash, Waits, Given, Retired, Settled
  <2> QED BY <1>7, <1>9, <2>2
<1> QED BY <1>11, <1>12
-----------------------------------------------------------------------------
(* At the start no connection is anywhere, in the pool and in the          *)
(* dispatcher.                                                             *)
LEMMA CInvInit == Init => CInv /\ Dispatcher!Init
<1> SUFFICES ASSUME Init PROVE CInv /\ Dispatcher!Init
  OBVIOUS
<1>1. /\ Waits = {} /\ Settled = {} /\ Stranded = {}
      /\ \A w \in Worker : Given(w) = NoConn
  BY ConstantsAssumption
  DEF Init, Waits, Settled, Given, NoJob, Stranded, Waiting
<1>2. CInv
  BY <1>1, ConstantsAssumption
  DEF Init, CInv, UnopenedIsNowhere, GoodRequestNotDropped
<1>3. Dispatcher!Init
  BY <1>1 DEF Init, Dispatcher!Init, Waits, Given, Settled
<1> QED BY <1>2, <1>3

(* Every step of the pool is a step of the dispatcher, or none.            *)
LEMMA CInvNext ==
    ASSUME IInv, CInv, [Next]_vars
    PROVE  CInv' /\ [Dispatcher!Next]_(Dispatcher!vars)
<1>1. CASE (\E c \in Conn : Accept(c)) \/ AcceptFails
  BY <1>1, AcceptStutters
<1>2. CASE RecvReady \/ DrainOne \/ DrainEnd \/ ResendOne
  BY <1>2, NumbersMove
<1>3. CASE Dispatch
  <2>1. picked \in Worker /\ incoming \in Conn
    BY <1>3 DEF Dispatch, IInv, TypeOK, MainControl
  <2>2. PICK p \in Worker : p = picked
    BY <2>1
  <2>3. PICK c \in Conn : c = incoming
    BY <2>1
  <2> QED BY <1>3, <2>2, <2>3, DispatchAssigns DEF Dispatcher!Next
<1>4. CASE DispatchAcceptError
  <2>1. picked \in Worker
    BY <1>4 DEF DispatchAcceptError, IInv, TypeOK, MainControl
  <2>2. PICK p \in Worker : p = picked
    BY <2>1
  <2> QED BY <1>4, <2>2, AcceptErrorRetires DEF Dispatcher!Next
<1>5. CASE \E w \in Worker : WorkerStep(w)
  BY <1>5, SendReadyStutters, RecvStreamStutters, EndJobSettles
  DEF WorkerStep, Dispatcher!Next
<1>6. CASE \E c \in Conn, k \in RequestKinds : Connect(c, k)
  BY <1>6, ConnectArrives DEF Dispatcher!Next
<1>7. CASE UNCHANGED vars
  <2>1. CInv'
    BY <1>7 DEF CInv, UnopenedIsNowhere, GoodRequestNotDropped, Waits, Given,
                Settled, vars, mainVars, workerVars, clientVars
  <2>2. UNCHANGED Dispatcher!vars
    BY <1>7 DEF Dispatcher!vars, Stranded, Waiting, NumberOut, vars, mainVars,
                workerVars, clientVars
  <2> QED BY <2>1, <2>2
<1> QED
  BY <1>1, <1>2, <1>3, <1>4, <1>5, <1>6, <1>7 DEF Next, MainStep

(* Both invariants hold always.                                            *)
LEMMA InvAlways == Spec => []Inv
<1>1. Init => Inv
  BY IInvInit, CInvInit DEF Inv
<1>2. Inv /\ [Next]_vars => Inv'
  BY IInvNext, CInvNext DEF Inv
<1> QED BY <1>1, <1>2, PTL DEF Spec

(* A request that can be answered never has its connection closed instead: *)
(* main gives it to no worker that is gone (main.rs:93-105).               *)
THEOREM AnswerableIsAnswered == Spec => []GoodRequestNotDropped
<1>1. Inv => GoodRequestNotDropped
  BY DEF Inv, CInv
<1> QED BY <1>1, InvAlways, PTL

(* The accept loop with its workers hands out connections as README.md:7   *)
(* describes: one connection per worker, each connection given once.       *)
THEOREM ImplementsDispatch == Spec => DispatchesConnections
<1>1. Init => Dispatcher!Init
  BY CInvInit
<1>2. Inv /\ [Next]_vars => [Dispatcher!Next]_(Dispatcher!vars)
  BY CInvNext DEF Inv
<1> QED
  BY <1>1, <1>2, InvAlways, PTL DEF Spec, DispatchesConnections, Dispatcher!Spec
-----------------------------------------------------------------------------
(* Counting the workers that are blocked for good.                         *)

(* A worker is stranded by the dispatch of a failed accept, one for each,  *)
(* and by no other step.                                                   *)
LEMMA StrandedNext ==
    ASSUME Inv, [Next]_vars
    PROVE  \/ UNCHANGED <<Stranded, AcceptErrorsHandled>>
           \/ \E p \in Worker : /\ Stranded' = Stranded \cup {p}
                                 /\ p \notin Stranded
                                 /\ AcceptErrorsHandled' = AcceptErrorsHandled + 1
<1> USE DEF Inv
<1>0. acceptErrors \in Nat /\ incoming \in Conn \cup {NoConn, AcceptError}
  BY DEF IInv, TypeOK
<1>1. CASE (\E c \in Conn : Accept(c)) \/ AcceptFails
  <2>1. incoming = NoConn
    BY <1>1 DEF IInv, MainControl, Accept, AcceptFails
  <2>2. AcceptErrorsHandled' = AcceptErrorsHandled
    BY <1>0, <1>1, <2>1, ConstantsAssumption
    DEF AcceptErrorsHandled, Accept, AcceptFails
  <2> QED BY <1>1, <2>2, AcceptStutters
<1>2. CASE RecvReady \/ DrainOne \/ DrainEnd \/ ResendOne
  <2>1. AcceptErrorsHandled' = AcceptErrorsHandled
    BY <1>2 DEF AcceptErrorsHandled, RecvReady, DrainOne, DrainEnd, ResendOne
  <2> QED BY <1>2, <2>1, NumbersMove
<1>3. CASE Dispatch
  <2>1. PICK p \in Worker, c \in Conn : p = picked /\ c = incoming
    BY <1>3 DEF Dispatch, IInv, TypeOK, MainControl
  <2>2. AcceptErrorsHandled' = AcceptErrorsHandled
    BY <1>3, ConstantsAssumption DEF AcceptErrorsHandled, Dispatch, EndIteration
  <2> QED BY <1>3, <2>1, <2>2, DispatchAssigns
<1>4. CASE DispatchAcceptError
  <2>1. PICK p \in Worker : p = picked
    BY <1>4 DEF DispatchAcceptError, IInv, TypeOK, MainControl
  <2>2. AcceptErrorsHandled' = AcceptErrorsHandled + 1
    BY <1>0, <1>4, ConstantsAssumption
    DEF AcceptErrorsHandled, DispatchAcceptError, EndIteration
  <2> QED BY <1>4, <2>1, <2>2, AcceptErrorRetires
<1>5. CASE \E w \in Worker : WorkerStep(w)
  <2>1. AcceptErrorsHandled' = AcceptErrorsHandled
    BY <1>5 DEF AcceptErrorsHandled, WorkerStep, SendReady, RecvStream, Finish,
                Panic, mainVars
  <2> QED
    BY <1>5, <2>1, SendReadyStutters, RecvStreamStutters, EndJobSettles
    DEF WorkerStep
<1>6. CASE \E c \in Conn, k \in RequestKinds : Connect(c, k)
  <2>1. AcceptErrorsHandled' = AcceptErrorsHandled
    BY <1>6 DEF AcceptErrorsHandled, Connect, mainVars
  <2> QED BY <1>6, <2>1, ConnectArrives
<1>7. CASE UNCHANGED vars
  BY <1>7 DEF Stranded, Waiting, NumberOut, AcceptErrorsHandled, vars, mainVars,
              workerVars
<1> QED
  BY <1>1, <1>2, <1>3, <1>4, <1>5, <1>6, <1>7 DEF Next, MainStep

(* Stranded workers are finitely many.                                     *)
LEMMA StrandedFinite == IsFiniteSet(Stranded)
  BY ConstantsAssumption, FS_Subset DEF Stranded

(* Every accept that returned Err has cost one worker, once its iteration  *)
(* of the loop is over, and nothing else has cost any (main.rs:93-105).    *)
THEOREM AcceptErrorsStrand == Spec => []StrandedByAcceptErrors
<1>1. Init => StrandedByAcceptErrors
  <2> SUFFICES ASSUME Init PROVE StrandedByAcceptErrors
    OBVIOUS
  <2>1. Stranded = {}
    BY DEF Init, Stranded, Waiting
  <2>2. AcceptErrorsHandled = 0
    <3>1. acceptErrors \in Nat /\ (IF incoming = AcceptError THEN 1 ELSE 0) = 0
      BY ConstantsAssumption DEF Init
    <3>2. AcceptErrorsHandled = acceptErrors
      BY <3>1 DEF AcceptErrorsHandled
    <3> QED BY <3>2 DEF Init
  <2> QED BY <2>1, <2>2, FS_EmptySet DEF StrandedByAcceptErrors
<1>2. Inv /\ StrandedByAcceptErrors /\ [Next]_vars => StrandedByAcceptErrors'
  <2> SUFFICES ASSUME Inv, StrandedByAcceptErrors, [Next]_vars
               PROVE  StrandedByAcceptErrors'
    OBVIOUS
  <2>1. \A p : p \notin Stranded =>
            Cardinality(Stranded \cup {p}) = Cardinality(Stranded) + 1
    BY StrandedFinite, FS_AddElement
  <2> QED BY <2>1, StrandedNext DEF StrandedByAcceptErrors
<1> QED BY <1>1, <1>2, InvAlways, PTL DEF Spec

(* The verdict on a drained ready channel is exact: no worker but the      *)
(* popped one waits, apart from those failed accepts have cost             *)
(* (main.rs:95-99).                                                        *)
THEOREM OverloadVerdict == Spec => OverloadVerdictExact
<1> DEFINE Others == {w \in Worker \ {picked} : Waiting(w)}
           Verdict == mainPc = "drain" /\ mainPc' = "resend" =>
                          (overloaded' <=> Cardinality(Others) = AcceptErrorsHandled)
<1>1. ASSUME Inv, StrandedByAcceptErrors, [Next]_vars,
             mainPc = "drain", mainPc' = "resend"
      PROVE  overloaded' <=> Cardinality(Others) = AcceptErrorsHandled
  <2>1. DrainEnd
    BY <1>1 DEF Next, MainStep, WorkerStep, Accept, AcceptFails, RecvReady,
                DrainOne, ResendOne, Dispatch, DispatchAcceptError, EndIteration,
                SendReady, RecvStream, Finish, Panic, Connect, mainVars, vars
  <2>2. readyQ = <<>> /\ (overloaded' <=> drained = <<>>)
    BY <2>1 DEF DrainEnd, Overload
  <2>3. IsFiniteSet(Others) /\ Stranded \subseteq Others
    BY ConstantsAssumption, FS_Subset DEF Stranded, NumberOut
  <2>4. CASE drained = <<>>
    <3>1. Others = Stranded
      BY <2>2, <2>4, EmptyChannel DEF Stranded, NumberOut
    <3> QED BY <1>1, <2>2, <2>4, <3>1 DEF StrandedByAcceptErrors
  <2>5. CASE drained # <<>>
    <3>1. /\ Head(drained) \in Worker /\ InSeq(Head(drained), drained)
      BY <1>1, <2>5, HeadTailProperties, InHeadTail DEF Inv, IInv, TypeOK
    <3>2. Head(drained) \in Others \ Stranded
      BY <1>1, <3>1
      DEF Inv, IInv, NumbersUnique, ReadyMeansWaiting, NumberOut, Stranded
    <3>3. Cardinality(Stranded) # Cardinality(Others)
      BY <2>3, <3>2, FS_Subset
    <3> QED BY <1>1, <2>2, <2>5, <3>3 DEF StrandedByAcceptErrors
  <2> QED BY <2>4, <2>5
<1>2. Inv /\ StrandedByAcceptErrors /\ [Next]_vars => [Verdict]_vars
  BY <1>1
<1> QED
  BY <1>2, InvAlways, AcceptErrorsStrand, PTL DEF Spec, OverloadVerdictExact
=============================================================================
