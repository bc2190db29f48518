----------------------- MODULE PowerController_proofs -----------------------
(***************************************************************************)
(* The power controller subscriber implements the abstract power feed, for *)
(* every length of its queue.                                              *)
(***************************************************************************)
EXTENDS PowerController, SequenceTheorems, TLAPS

\* The sequences behind the refinement mapping: the change being handled in
\* front of those in the queue.
LEMMA ConsFacts ==
  ASSUME NEW S, NEW e \in S, NEW q \in Seq(S)
  PROVE  /\ <<e>> \o q \in Seq(S)
         /\ <<e>> \o q # <<>>
         /\ Head(<<e>> \o q) = e
         /\ Tail(<<e>> \o q) = q
         /\ \A c \in S : Append(<<e>> \o q, c) = <<e>> \o Append(q, c)
<1> DEFINE s == <<e>> \o q
<1>1. /\ s \in Seq(S) /\ Len(s) = 1 + Len(q)
      /\ s[1] = e
      /\ \A i \in 2..(1 + Len(q)) : s[i] = q[i - 1]
  BY ConcatProperties
<1>2. s # <<>> /\ Head(s) = e
  BY <1>1
<1>3. Tail(s) = q
  <2>1. /\ Tail(s) \in Seq(S) /\ Len(Tail(s)) = Len(q)
        /\ \A i \in 1..Len(q) : Tail(s)[i] = s[i + 1]
    BY <1>1, <1>2, HeadTailProperties
  <2>2. \A i \in 1..Len(q) : Tail(s)[i] = q[i]
    BY <1>1, <2>1
  <2> QED
    BY <2>1, <2>2, SeqEqual
<1>4. ASSUME NEW c \in S PROVE Append(s, c) = <<e>> \o Append(q, c)
  <2>1. Append(s, c) = s \o <<c>> /\ Append(q, c) = q \o <<c>>
    BY <1>1, AppendIsConcat
  <2>2. <<e>> \in Seq(S) /\ <<c>> \in Seq(S)
    OBVIOUS
  <2> QED
    BY <2>1, <2>2, ConcatAssociative
<1> QED
  BY <1>1, <1>2, <1>3, <1>4

\* A queue is its head in front of its tail.
LEMMA HeadInFrontOfTail ==
  ASSUME NEW S, NEW q \in Seq(S), q # <<>>
  PROVE  q = <<Head(q)>> \o Tail(q)
<1>1. /\ Head(q) \in S /\ Tail(q) \in Seq(S) /\ Len(Tail(q)) = Len(q) - 1
      /\ \A i \in 1..Len(Tail(q)) : Tail(q)[i] = q[i + 1]
  BY HeadTailProperties
<1> DEFINE s == <<Head(q)>> \o Tail(q)
<1>2. /\ s \in Seq(S) /\ Len(s) = Len(q)
      /\ s[1] = Head(q)
      /\ \A i \in 2..Len(q) : s[i] = Tail(q)[i - 1]
  BY <1>1, ConcatProperties
<1>3. \A i \in 1..Len(q) : s[i] = q[i]
  BY <1>1, <1>2
<1> HIDE DEF s
<1>4. s = q
  BY <1>2, <1>3, SeqEqual
<1> QED
  BY <1>4 DEF s

-----------------------------------------------------------------------------
(* The type invariant.                                                     *)

\* The bound of the queue is a number.
LEMMA QueueBound == MaxPwrQueue \in Nat
<1>1. MaxPwrQueue \in Nat \ {0}
  BY PowerAssumption, Zenon
<1> QED
  BY <1>1

\* The initial state has the types.
LEMMA InitType == PowerInit => TypeOK
<1> SUFFICES ASSUME PowerInit PROVE TypeOK
  OBVIOUS
<1>1. registered \in BOOLEAN
  BY Zenon DEF PowerInit
<1>2. m_pwrEvtQueue \in Seq(Feed!Changes) /\ Len(m_pwrEvtQueue) <= MaxPwrQueue
  <2>1. m_pwrEvtQueue = <<>>
    BY Zenon DEF PowerInit
  <2> QED
    BY <2>1, PowerAssumption
<1>3. /\ device = "ON" /\ connPc = "idle" /\ cbPc = "idle"
      /\ evtPc = "none" /\ evt = NoEvent /\ lastCall = "none"
      /\ deinitPc = "none"
  BY Zenon DEF PowerInit
<1>4. device \in Feed!PowerStates /\ evt \in Feed!Changes
  BY <1>3 DEF NoEvent, Feed!PowerStates, Feed!Changes
<1>5. /\ connPc \in {"idle", "retry", "done"} /\ cbPc \in {"idle", "notify"}
      /\ evtPc \in {"none", "check", "falls asleep", "blocked", "drain",
                    "handle"}
      /\ lastCall \in Feed!Calls \cup {"none"}
      /\ deinitPc \in {"none", "clear", "join", "terminated"}
  BY <1>3
<1> QED
  BY <1>1, <1>2, <1>4, <1>5, Zenon DEF TypeOK

\* The change the event thread starts with between two events.
LEMMA NoEventType == NoEvent \in Feed!Changes
BY DEF NoEvent, Feed!PowerStates, Feed!Changes

\* Every step keeps the types.
LEMMA NextType == TypeOK /\ [PowerNext]_powerVars => TypeOK'
<1> SUFFICES ASSUME TypeOK, [PowerNext]_powerVars PROVE TypeOK'
  OBVIOUS
<1> USE DEF TypeOK
<1>0. CASE UNCHANGED powerVars
  BY <1>0 DEF powerVars
<1>1. CASE subscribe
  BY <1>1 DEF subscribe, Register
<1>2. CASE sysTimeMgrPwrConnectHandlingThreadFunc
  BY <1>2 DEF sysTimeMgrPwrConnectHandlingThreadFunc, Register
<1>3. CASE PowerChange
  <2>1. PICK new \in Feed!PowerStates :
               /\ device' = new
               /\ IF registered
                    THEN /\ Enqueue([cur |-> device, new |-> new])
                         /\ cbPc' = "notify"
                    ELSE UNCHANGED <<m_pwrEvtQueue, cbPc>>
    BY <1>3 DEF PowerChange
  <2>2. [cur |-> device, new |-> new] \in Feed!Changes
    BY DEF Feed!Changes
  <2>3. /\ m_pwrEvtQueue' \in Seq(Feed!Changes)
        /\ Len(m_pwrEvtQueue') <= MaxPwrQueue
    <3>1. Len(m_pwrEvtQueue) < MaxPwrQueue /\ MaxPwrQueue \in Nat
      BY <1>3, QueueBound, Zenon DEF PowerChange
    <3> DEFINE c == [cur |-> device, new |-> new]
    <3>2. \/ m_pwrEvtQueue' = Append(m_pwrEvtQueue, c)
          \/ m_pwrEvtQueue' = m_pwrEvtQueue
      BY <2>1, Zenon DEF Enqueue
    <3> HIDE DEF c
    <3>3. CASE m_pwrEvtQueue' = Append(m_pwrEvtQueue, c)
      <4>1. c \in Feed!Changes
        BY <2>2 DEF c
      <4>2. m_pwrEvtQueue \in Seq(Feed!Changes)
        BY Zenon
      <4>3. /\ Append(m_pwrEvtQueue, c) \in Seq(Feed!Changes)
            /\ Len(Append(m_pwrEvtQueue, c)) = Len(m_pwrEvtQueue) + 1
        BY <4>1, <4>2, AppendProperties
      <4>4. Len(m_pwrEvtQueue) \in Nat
        BY <4>2, LenProperties
      <4> HIDE DEF TypeOK
      <4> QED
        BY <3>1, <3>3, <4>3, <4>4
    <3> QED
      BY <3>2, <3>3, Zenon
  <2> QED
    BY <1>3, <2>1, <2>3 DEF PowerChange
<1>4. CASE Notify
  BY <1>4 DEF Notify, Woken
<1>5. CASE Check \/ Block \/ SpuriousWakeup
  BY <1>5 DEF Check, Block, SpuriousWakeup, EventStep
<1>6. CASE Drain
  <2>1. m_pwrEvtQueue # <<>> =>
          /\ Head(m_pwrEvtQueue) \in Feed!Changes
          /\ Tail(m_pwrEvtQueue) \in Seq(Feed!Changes)
          /\ Len(Tail(m_pwrEvtQueue)) <= MaxPwrQueue
    <3>1. m_pwrEvtQueue \in Seq(Feed!Changes)
          /\ Len(m_pwrEvtQueue) <= MaxPwrQueue
      BY Zenon
    <3> HIDE DEF TypeOK
    <3> QED
      BY <3>1, QueueBound, HeadTailProperties
  <2> QED
    BY <1>6, <2>1 DEF Drain, EventStep
<1>7. CASE Handle
  <2>1. lastCall' \in Feed!Calls \cup {"none"}
    BY <1>7 DEF Handle, sysTimeMgrHandlePwrEventData, Feed!Calls
  <2> QED
    BY <1>7, <2>1, NoEventType DEF Handle, EventStep
<1>8. CASE DeinitNotify
  BY <1>8 DEF DeinitNotify, Woken
<1>9. CASE DeinitClear
  <2>1. <<>> \in Seq(Feed!Changes) /\ Len(<<>>) <= MaxPwrQueue
    <3> HIDE DEF TypeOK
    <3> QED
      BY QueueBound
  <2> QED
    BY <1>9, <2>1 DEF DeinitClear
<1>10. CASE DeinitJoin
  BY <1>10 DEF DeinitJoin
<1> QED
  BY <1>0, <1>1, <1>2, <1>3, <1>4, <1>5, <1>6, <1>7, <1>8, <1>9, <1>10
  DEF PowerNext

\* The values of the subscriber's variables, for every bound on its queue.
THEOREM TypeCorrect == PowerSpec => []TypeOK
BY InitType, NextType, PTL DEF PowerSpec

\* subscribe() has not started the event thread before it is called: what it
\* starts is not in the middle of a change.
IdleIsUnstarted == connPc = "idle" => evtPc = "none"

\* Nothing but subscribe() starts the event thread, and it leaves "idle".
LEMMA NotStartedTwice == PowerSpec => []IdleIsUnstarted
<1>1. PowerInit => IdleIsUnstarted
  BY Zenon DEF PowerInit, IdleIsUnstarted
<1>2. IdleIsUnstarted /\ [PowerNext]_powerVars => IdleIsUnstarted'
  <2> SUFFICES ASSUME IdleIsUnstarted, [PowerNext]_powerVars
               PROVE  IdleIsUnstarted'
    OBVIOUS
  <2>1. CASE UNCHANGED powerVars
    BY <2>1, Zenon DEF powerVars, IdleIsUnstarted
  <2>2. CASE subscribe \/ sysTimeMgrPwrConnectHandlingThreadFunc
    <3>1. connPc' \in {"retry", "done"}
      BY <2>2, Zenon DEF subscribe, Register,
         sysTimeMgrPwrConnectHandlingThreadFunc
    <3> QED
      BY <3>1 DEF IdleIsUnstarted
  <2>3. CASE PowerChange \/ DeinitClear \/ DeinitJoin
    BY <2>3, Zenon DEF PowerChange, DeinitClear, DeinitJoin, IdleIsUnstarted
  <2>4. CASE Notify \/ DeinitNotify
    <3>1. connPc' = connPc /\ evtPc' = Woken
      BY <2>4, Zenon DEF Notify, DeinitNotify
    <3> QED
      BY <3>1 DEF Woken, IdleIsUnstarted
  <2>5. CASE Check \/ Block \/ SpuriousWakeup \/ Drain \/ Handle
    <3>1. connPc' = connPc /\ evtPc # "none"
      BY <2>5 DEF Check, Block, SpuriousWakeup, Drain, Handle, EventStep
    <3> QED
      BY <3>1, Zenon DEF IdleIsUnstarted
  <2> QED
    BY <2>1, <2>2, <2>3, <2>4, <2>5, Zenon DEF PowerNext
<1> QED
  BY <1>1, <1>2, PTL DEF PowerSpec

-----------------------------------------------------------------------------
(* The refinement.                                                         *)

\* The switch of the power controller subscriber and the conditions of the
\* IARM subscriber pick the same call.
LEMMA SameCall ==
  ASSUME NEW change \in Feed!Changes
  PROVE  sysTimeMgrHandlePwrEventData(change.cur, change.new)
           = Feed!powereventHandler(change)
BY DEF sysTimeMgrHandlePwrEventData, Feed!powereventHandler, Feed!Changes

\* Only the destructor, when it clears the queue, ends the life of the
\* subscriber, and it does so once.
LEMMA LifeStep ==
  ASSUME TypeOK, [PowerNext]_powerVars
  PROVE  /\ ~DeinitClear => Life' = Life
         /\ DeinitClear => Life = "in use" /\ Life' = "destroyed"
<1>1. CASE DeinitNotify
  BY <1>1 DEF DeinitNotify, DeinitClear, Life
<1>2. CASE DeinitClear
  BY <1>2 DEF DeinitClear, Life
<1>3. CASE DeinitJoin
  BY <1>3 DEF DeinitJoin, DeinitClear, Life
<1>4. CASE UNCHANGED deinitPc
  BY <1>4 DEF DeinitClear, Life
<1>5. DeinitNotify \/ DeinitClear \/ DeinitJoin \/ UNCHANGED deinitPc
  BY Zenon DEF PowerNext, powerVars, subscribe,
     sysTimeMgrPwrConnectHandlingThreadFunc, PowerChange, Notify, Check, Block,
     SpuriousWakeup, Drain, Handle, EventStep
<1> QED
  BY <1>1, <1>2, <1>3, <1>4, <1>5, Zenon

\* Every step of the subscriber is a step of the abstract feed, or none.
LEMMA StepRefines ==
  TypeOK /\ IdleIsUnstarted /\ [PowerNext]_powerVars =>
    [Feed!Accept \/ Feed!Report \/ Feed!Discard]_(Feed!feedVars)
<1> SUFFICES ASSUME TypeOK, IdleIsUnstarted, [PowerNext]_powerVars
             PROVE  \/ Feed!Accept \/ Feed!Report \/ Feed!Discard
                    \/ UNCHANGED <<Life, Pending, lastCall>>
  BY DEF Feed!feedVars
<1>1. m_pwrEvtQueue \in Seq(Feed!Changes) /\ evt \in Feed!Changes
  BY DEF TypeOK
<1>0. /\ ~DeinitClear => Life' = Life
      /\ DeinitClear => Life = "in use" /\ Life' = "destroyed"
  BY LifeStep
<1>2. CASE UNCHANGED powerVars
  <2>1. Life' = Life
    BY <1>2 DEF powerVars, Life
  <2> QED
    BY <1>2, <2>1 DEF powerVars, Pending
<1>3. CASE \/ subscribe \/ sysTimeMgrPwrConnectHandlingThreadFunc
           \/ Notify \/ Check \/ Block \/ SpuriousWakeup
           \/ DeinitNotify \/ DeinitJoin
  <2>1. UNCHANGED <<m_pwrEvtQueue, evt, lastCall>>
    BY <1>3, Zenon DEF subscribe, sysTimeMgrPwrConnectHandlingThreadFunc,
       Notify, Check, Block, SpuriousWakeup, DeinitNotify, DeinitJoin
  <2>2. \/ evtPc' = evtPc
        \/ evtPc # "handle" /\ evtPc' # "handle"
    <3>1. CASE subscribe
      <4>1. connPc = "idle" /\ evtPc' = "check"
        BY <3>1, Zenon DEF subscribe
      <4> QED
        BY <4>1 DEF IdleIsUnstarted
    <3>2. CASE \/ sysTimeMgrPwrConnectHandlingThreadFunc \/ DeinitJoin
      BY <3>2, Zenon DEF sysTimeMgrPwrConnectHandlingThreadFunc, DeinitJoin
    <3>3. CASE Notify \/ DeinitNotify
      <4>1. evtPc' = Woken
        BY <3>3, Zenon DEF Notify, DeinitNotify
      <4> QED
        BY <4>1 DEF Woken
    <3>4. CASE Check \/ Block \/ SpuriousWakeup
      BY <3>4 DEF Check, Block, SpuriousWakeup
    <3> QED
      BY <1>3, <3>1, <3>2, <3>3, <3>4, Zenon
  <2>3. Life' = Life
    <3>1. ~DeinitClear
      BY <1>3 DEF DeinitClear, DeinitNotify, DeinitJoin, subscribe,
         sysTimeMgrPwrConnectHandlingThreadFunc, Notify, Check, Block,
         SpuriousWakeup, EventStep
    <3> QED
      BY <1>0, <3>1, Zenon
  <2> QED
    BY <2>1, <2>2, <2>3 DEF Pending
<1>4. CASE PowerChange
  <2>1. PICK new \in Feed!PowerStates :
               IF registered
                 THEN Enqueue([cur |-> device, new |-> new])
                 ELSE UNCHANGED m_pwrEvtQueue
    BY <1>4 DEF PowerChange
  <2>2. UNCHANGED <<evtPc, evt, lastCall>>
    BY <1>4 DEF PowerChange
  <2>5. Life' = Life
    BY <1>4 DEF PowerChange, Life
  <2>3. CASE registered
    <3> DEFINE c == [cur |-> device, new |-> new]
    <3>1. c \in Feed!Changes
      BY DEF Feed!Changes, TypeOK
    <3>2. m_pwrEvtQueue' = Append(m_pwrEvtQueue, c)
      BY <2>1, <2>3 DEF Enqueue
    <3> HIDE DEF c
    <3>3. Pending' = Append(Pending, c)
      BY <1>1, <2>2, <3>1, <3>2, ConsFacts DEF Pending
    <3> QED
      BY <2>2, <2>5, <3>1, <3>3 DEF Feed!Accept
  <2>4. CASE ~registered
    BY <2>1, <2>2, <2>4, <2>5 DEF Pending
  <2> QED
    BY <2>3, <2>4
<1>5. CASE Drain
  <2>0. Life' = Life
    BY <1>5 DEF Drain, EventStep, Life
  <2>1. CASE m_pwrEvtQueue = <<>>
    BY <1>5, <2>0, <2>1 DEF Drain, Pending
  <2>2. CASE m_pwrEvtQueue # <<>>
    BY <1>1, <1>5, <2>0, <2>2, HeadInFrontOfTail DEF Drain, Pending
  <2> QED
    BY <2>1, <2>2
<1>6. CASE Handle
  <2>1. /\ Pending # <<>> /\ Head(Pending) = evt
        /\ Tail(Pending) = m_pwrEvtQueue
    BY <1>1, <1>6, ConsFacts DEF Handle, Pending
  <2>2. Pending' = Tail(Pending)
    BY <1>6, <2>1 DEF Handle, Pending
  <2>3. lastCall' = IF Feed!powereventHandler(evt) = "none" THEN lastCall
                    ELSE Feed!powereventHandler(evt)
    BY <1>1, <1>6, SameCall DEF Handle
  <2>4. Life' = Life
    BY <1>6 DEF Handle, EventStep, Life
  <2> QED
    BY <2>1, <2>2, <2>3, <2>4 DEF Feed!Report
<1>7. CASE DeinitClear
  <2>0. Life = "in use" /\ Life' = "destroyed"
    BY <1>0, <1>7, Zenon
  <2>1. m_pwrEvtQueue' = <<>> /\ UNCHANGED <<evtPc, evt, lastCall>>
    BY <1>7 DEF DeinitClear
  <2>2. CASE evtPc = "handle"
    <3>1. Pending = <<evt>> \o m_pwrEvtQueue /\ Pending' = <<evt>> \o <<>>
      BY <2>1, <2>2 DEF Pending
    <3>2. Pending' = <<evt>>
      BY <1>1, <3>1, ConcatEmptySeq
    <3>3. SubSeq(Pending, 1, 1) = SubSeq(<<evt>>, 1, 1) /\ Len(Pending) >= 1
      BY <1>1, <3>1, SubSeqOfConcat1, ConcatProperties
    <3>4. SubSeq(<<evt>>, 1, 1) = <<evt>>
      <4>1. <<evt>> \in Seq(Feed!Changes) /\ Len(<<evt>>) = 1
        BY <1>1
      <4> QED
        BY <4>1, SubSeqFull
    <3>5. 1 \in 0..1 /\ 1 <= Len(Pending) /\ Pending' = SubSeq(Pending, 1, 1)
      BY <3>2, <3>3, <3>4
    <3> QED
      BY <2>0, <2>1, <3>5, Zenon DEF Feed!Discard
  <2>3. CASE evtPc # "handle"
    <3>1. Pending' = <<>> /\ Len(Pending) \in Nat
      BY <1>1, <2>1, <2>3 DEF Pending
    <3>2. SubSeq(Pending, 1, 0) = <<>>
      BY SubSeqEmpty
    <3>3. 0 \in 0..1 /\ 0 <= Len(Pending) /\ Pending' = SubSeq(Pending, 1, 0)
      BY <3>1, <3>2
    <3> QED
      BY <2>0, <2>1, <3>3, Zenon DEF Feed!Discard
  <2> QED
    BY <2>2, <2>3
<1> QED
  BY <1>2, <1>3, <1>4, <1>5, <1>6, <1>7 DEF PowerNext

\* The subscriber with its queue, its threads and its two mutexes makes the
\* calls of one that has none of them: no change twice, none out of order,
\* each as the same call and none lost before the destructor clears the
\* queue, whatever the interleaving.
THEOREM ImplementsFeed == PowerSpec => ReportsLikeIarm
<1>1. PowerInit => Feed!FeedInit
  BY DEF PowerInit, Feed!FeedInit, Pending, Life
<1> QED
  BY <1>1, StepRefines, TypeCorrect, NotStartedTwice, PTL
  DEF PowerSpec, ReportsLikeIarm, Feed!FeedSpec

-----------------------------------------------------------------------------
(* Two wakes have a sleep between them.                                    *)

\* The first element of a sequence, if it has one.
LEMMA SeqStart ==
  ASSUME NEW S, NEW q \in Seq(S)
  PROVE  /\ Len(q) \in Nat
         /\ q = <<>> <=> Len(q) = 0
         /\ q # <<>> => Head(q) = q[1]
<1>1. Len(q) \in Nat /\ (q # <<>> => Len(q) \in Nat \ {0}) /\ Len(<<>>) = 0
  BY EmptySeq, LenProperties
<1>2. q # <<>> => Head(q) = q[1]
  OBVIOUS
<1> QED
  BY <1>1, <1>2

\* A change from the state a chain ends in makes it longer, and starts where
\* it started.
LEMMA ChainAppend ==
  ASSUME NEW q \in Seq(Feed!Changes), NEW c \in Feed!Changes,
         ChainedTo(q, c.cur)
  PROVE  /\ ChainedTo(Append(q, c), c.new)
         /\ StartOf(Append(q, c), c.new) = StartOf(q, c.cur)
<1> DEFINE s == Append(q, c)
<1>1. /\ s \in Seq(Feed!Changes) /\ s # <<>> /\ Len(s) = Len(q) + 1
      /\ \A i \in 1..Len(q) : s[i] = q[i]
      /\ s[Len(q) + 1] = c
  BY AppendProperties
<1>2. Len(q) \in Nat /\ (q = <<>> <=> Len(q) = 0)
  BY SeqStart
<1>3. Head(s) = s[1] /\ (q # <<>> => Head(q) = q[1])
  BY <1>1
<1> HIDE DEF s
<1>4. ASSUME NEW i \in 1..(Len(s) - 1) PROVE s[i].new = s[i + 1].cur
  <2>1. CASE i = Len(q)
    BY <1>1, <1>2, <2>1 DEF ChainedTo
  <2>2. CASE i # Len(q)
    BY <1>1, <1>2, <2>2 DEF ChainedTo
  <2> QED
    BY <2>1, <2>2
<1>5. ChainedTo(s, c.new)
  BY <1>1, <1>2, <1>4 DEF ChainedTo
<1>6. StartOf(s, c.new) = StartOf(q, c.cur)
  BY <1>1, <1>2, <1>3 DEF StartOf
<1> QED
  BY <1>5, <1>6 DEF s

\* Without its first change a chain is still one, and starts where that
\* change ended.
LEMMA ChainTail ==
  ASSUME NEW q \in Seq(Feed!Changes), q # <<>>, NEW d, ChainedTo(q, d)
  PROVE  /\ ChainedTo(Tail(q), d)
         /\ StartOf(Tail(q), d) = Head(q).new
<1> DEFINE t == Tail(q)
<1>1. /\ t \in Seq(Feed!Changes) /\ Len(t) = Len(q) - 1
      /\ \A i \in 1..Len(t) : t[i] = q[i + 1]
      /\ Head(q) = q[1]
  BY HeadTailProperties
<1> HIDE DEF t
<1>2. /\ Len(q) \in Nat /\ Len(q) # 0 /\ Len(t) \in Nat
      /\ (t = <<>> <=> Len(t) = 0) /\ (t # <<>> => Head(t) = t[1])
  BY <1>1, SeqStart
<1>3. ChainedTo(t, d)
  <2>1. ASSUME NEW i \in 1..(Len(t) - 1) PROVE t[i].new = t[i + 1].cur
    BY <1>1, <1>2 DEF ChainedTo
  <2>2. t # <<>> => t[Len(t)].new = d
    BY <1>1, <1>2 DEF ChainedTo
  <2> QED
    BY <2>1, <2>2 DEF ChainedTo
<1>4. StartOf(t, d) = Head(q).new
  <2>1. CASE t = <<>>
    <3>1. Len(q) = 1 /\ q[Len(q)].new = d
      BY <1>1, <1>2, <2>1 DEF ChainedTo
    <3> QED
      BY <1>1, <2>1, <3>1 DEF StartOf
  <2>2. CASE t # <<>>
    <3>1. 1 \in 1..(Len(q) - 1) /\ t[1] = q[2]
      BY <1>1, <1>2, <2>2
    <3> QED
      BY <1>1, <1>2, <2>2, <3>1 DEF ChainedTo, StartOf
  <2> QED
    BY <2>1, <2>2
<1> QED
  BY <1>3, <1>4 DEF t

\* A callback is registered once, and only then changes arrive.
LEMMA RegistrationStep ==
  ASSUME TypeOK, NothingBeforeRegistration, [PowerNext]_powerVars,
         deinitPc = "none", deinitPc' = "none"
  PROVE  NothingBeforeRegistration'
<1> USE DEF NothingBeforeRegistration
<1>1. CASE UNCHANGED powerVars
  BY <1>1, Zenon DEF powerVars
<1>2. CASE subscribe \/ sysTimeMgrPwrConnectHandlingThreadFunc
  <2>1. /\ connPc # "done"
        /\ m_pwrEvtQueue' = m_pwrEvtQueue /\ lastCall' = lastCall
    BY <1>2 DEF subscribe, sysTimeMgrPwrConnectHandlingThreadFunc
  <2>2. evtPc' = evtPc \/ evtPc' = "check"
    BY <1>2, Zenon DEF subscribe, sysTimeMgrPwrConnectHandlingThreadFunc
  <2>3. connPc' = "done" \/ registered' = registered
    BY <1>2, Zenon DEF subscribe, sysTimeMgrPwrConnectHandlingThreadFunc,
       Register
  <2>4. m_pwrEvtQueue = <<>> /\ evtPc # "handle" /\ lastCall = "none"
        /\ ~registered
    BY <2>1, Zenon
  <2>5. evtPc' # "handle"
    BY <2>2, <2>4
  <2>6. m_pwrEvtQueue' = <<>> /\ lastCall' = "none"
    BY <2>1, <2>4, Zenon
  <2>7. connPc' # "done" => ~registered'
    BY <2>3, <2>4, Zenon
  <2> QED
    BY <2>5, <2>6, <2>7, Zenon
<1>3. CASE PowerChange
  BY <1>3, Zenon DEF PowerChange
<1>4. CASE Notify
  <2>1. evtPc' # "handle" \/ evtPc' = evtPc
    BY <1>4 DEF Notify, Woken
  <2> QED
    BY <1>4, <2>1, Zenon DEF Notify
<1>5. CASE Check \/ Block \/ SpuriousWakeup
  <2>1. evtPc' # "handle"
    BY <1>5 DEF Check, Block, SpuriousWakeup
  <2>2. /\ connPc' = connPc /\ registered' = registered
        /\ m_pwrEvtQueue' = m_pwrEvtQueue /\ lastCall' = lastCall
    BY <1>5, Zenon DEF Check, Block, SpuriousWakeup, EventStep
  <2> QED
    BY <2>1, <2>2, Zenon
<1>6. CASE Drain
  <2>1. m_pwrEvtQueue = <<>> => evtPc' = "check"
    BY <1>6, Zenon DEF Drain
  <2>2. m_pwrEvtQueue = <<>> => evtPc' # "handle"
    BY <2>1
  <2> QED
    BY <1>6, <2>2, Zenon DEF Drain, EventStep
<1>7. CASE Handle
  BY <1>7, Zenon DEF Handle, EventStep
<1>8. CASE DeinitNotify \/ DeinitClear \/ DeinitJoin
  BY <1>8 DEF DeinitNotify, DeinitClear, DeinitJoin
<1> QED
  BY <1>1, <1>2, <1>3, <1>4, <1>5, <1>6, <1>7, <1>8, Zenon DEF PowerNext

\* Every step keeps the chain and what a wake leaves behind.
LEMMA ChainStep ==
  ASSUME TypeOK, ChangesChain, AwakeSinceWake, NothingBeforeRegistration,
         [PowerNext]_powerVars, deinitPc = "none", deinitPc' = "none"
  PROVE  ChangesChain' /\ AwakeSinceWake'
<1>0. /\ m_pwrEvtQueue \in Seq(Feed!Changes) /\ evt \in Feed!Changes
      /\ device \in Feed!PowerStates
  BY DEF TypeOK
<1> USE DEF ChangesChain, AwakeSinceWake, NextStart
<1>1. CASE UNCHANGED powerVars
  BY <1>1 DEF powerVars
<1>2. CASE \/ subscribe \/ sysTimeMgrPwrConnectHandlingThreadFunc
           \/ Notify \/ Check \/ Block \/ SpuriousWakeup
  <2>1. /\ device' = device /\ m_pwrEvtQueue' = m_pwrEvtQueue
        /\ evt' = evt /\ lastCall' = lastCall
    BY <1>2, Zenon DEF subscribe, sysTimeMgrPwrConnectHandlingThreadFunc,
       Notify, Check, Block, SpuriousWakeup, EventStep
  <2>2. evtPc' = evtPc \/ (evtPc # "handle" /\ evtPc' # "handle")
    <3>1. CASE subscribe
      <4>1. connPc = "idle" /\ evtPc' = "check"
        BY <3>1, Zenon DEF subscribe
      <4>2. ~registered
        BY <4>1 DEF NothingBeforeRegistration
      <4>3. evtPc # "handle"
        BY <4>2, Zenon DEF NothingBeforeRegistration
      <4> QED
        BY <4>1, <4>3
    <3>2. CASE sysTimeMgrPwrConnectHandlingThreadFunc
      BY <3>2, Zenon DEF sysTimeMgrPwrConnectHandlingThreadFunc
    <3>3. CASE Notify \/ Check \/ Block \/ SpuriousWakeup
      BY <3>3 DEF Notify, Woken, Check, Block, SpuriousWakeup
    <3> QED
      BY <1>2, <3>1, <3>2, <3>3, Zenon
  <2> QED
    BY <2>1, <2>2
<1>3. CASE PowerChange
  <2>1. PICK new \in Feed!PowerStates :
               /\ device' = new
               /\ IF registered
                    THEN /\ Enqueue([cur |-> device, new |-> new])
                         /\ cbPc' = "notify"
                    ELSE UNCHANGED <<m_pwrEvtQueue, cbPc>>
    BY <1>3, Zenon DEF PowerChange
  <2>2. evtPc' = evtPc /\ evt' = evt /\ lastCall' = lastCall
    BY <1>3, Zenon DEF PowerChange
  <2>3. CASE registered
    <3> DEFINE c == [cur |-> device, new |-> new]
    <3>1. m_pwrEvtQueue' = Append(m_pwrEvtQueue, c)
      BY <2>1, <2>3, Zenon DEF Enqueue
    <3>2. c \in Feed!Changes /\ c.cur = device /\ c.new = device'
      BY <1>0, <2>1 DEF Feed!Changes
    <3> HIDE DEF c
    <3>3. /\ ChainedTo(m_pwrEvtQueue', device')
          /\ StartOf(m_pwrEvtQueue', device') = StartOf(m_pwrEvtQueue, device)
      BY <1>0, <3>1, <3>2, ChainAppend
    <3> QED
      BY <2>2, <3>3
  <2>4. CASE ~registered
    <3>1. m_pwrEvtQueue' = m_pwrEvtQueue
      BY <2>1, <2>4, Zenon
    <3>2. m_pwrEvtQueue = <<>> /\ evtPc # "handle" /\ lastCall = "none"
      BY <2>4, Zenon DEF NothingBeforeRegistration
    <3>3. ChainedTo(<<>>, device')
      BY DEF ChainedTo
    <3> QED
      BY <2>2, <3>1, <3>2, <3>3
  <2> QED
    BY <2>3, <2>4
<1>4. CASE Drain
  <2>1. device' = device /\ lastCall' = lastCall /\ evtPc = "drain"
    BY <1>4, Zenon DEF Drain, EventStep
  <2>2. CASE m_pwrEvtQueue = <<>>
    <3>1. evtPc' = "check" /\ m_pwrEvtQueue' = m_pwrEvtQueue
      BY <1>4, <2>2, Zenon DEF Drain
    <3> QED
      BY <2>1, <3>1
  <2>3. CASE m_pwrEvtQueue # <<>>
    <3>1. /\ evt' = Head(m_pwrEvtQueue)
          /\ m_pwrEvtQueue' = Tail(m_pwrEvtQueue)
          /\ evtPc' = "handle"
      BY <1>4, <2>3, Zenon DEF Drain
    <3>2. /\ ChainedTo(m_pwrEvtQueue', device')
          /\ StartOf(m_pwrEvtQueue', device') = evt'.new
      BY <1>0, <2>1, <2>3, <3>1, ChainTail
    <3>3. StartOf(m_pwrEvtQueue, device) = evt'.cur
      BY <2>3, <3>1 DEF StartOf
    <3> QED
      BY <2>1, <3>1, <3>2, <3>3
  <2> QED
    BY <2>2, <2>3
<1>5. CASE Handle
  <2> DEFINE call == sysTimeMgrHandlePwrEventData(evt.cur, evt.new)
  <2>1. /\ evtPc = "handle" /\ evtPc' = "drain"
        /\ device' = device /\ m_pwrEvtQueue' = m_pwrEvtQueue
        /\ lastCall' = IF call = "none" THEN lastCall ELSE call
    BY <1>5, Zenon DEF Handle, EventStep
  <2>2. /\ evt.cur \in Feed!PowerStates /\ evt.new \in Feed!PowerStates
    BY <1>0 DEF Feed!Changes
  <2>3. /\ call = "DEEP_SLEEP_OFF" => evt.new # "DEEP_SLEEP"
        /\ call = "none" => evt.new # "DEEP_SLEEP"
    BY <2>2 DEF sysTimeMgrHandlePwrEventData, Feed!PowerStates
  <2> HIDE DEF call
  <2>4. lastCall' = "DEEP_SLEEP_OFF" => evt.new # "DEEP_SLEEP"
    BY <2>1, <2>3
  <2> QED
    BY <2>1, <2>4
<1>6. CASE DeinitNotify \/ DeinitClear \/ DeinitJoin
  BY <1>6 DEF DeinitNotify, DeinitClear, DeinitJoin
<1> QED
  BY <1>1, <1>2, <1>3, <1>4, <1>5, <1>6, Zenon DEF PowerNext

\* Once the destructor runs, it does not take it back.
LEMMA WakeNextInv == TypeOK /\ WakeInv /\ [PowerNext]_powerVars => WakeInv'
<1> SUFFICES ASSUME TypeOK, WakeInv, [PowerNext]_powerVars,
                    deinitPc' = "none"
             PROVE  (/\ ChangesChain /\ AwakeSinceWake
                     /\ NothingBeforeRegistration)'
  BY DEF WakeInv
<1>1. deinitPc = "none"
  BY DEF PowerNext, powerVars, subscribe,
     sysTimeMgrPwrConnectHandlingThreadFunc, PowerChange, Notify, Check, Block,
     SpuriousWakeup, Drain, Handle, EventStep, DeinitNotify, DeinitClear,
     DeinitJoin
<1> QED
  BY <1>1, ChainStep, RegistrationStep, Zenon DEF WakeInv

\* A wake is reported from a change that starts in deep sleep, and after a
\* wake no change does before a sleep is reported: deepsleepoff() runs once
\* per deep sleep, for every length of the queue.
THEOREM OneWakePerSleep == PowerSpec => WakeNeedsSleep
<1>1. PowerInit => WakeInv
  BY DEF PowerInit, WakeInv, ChangesChain, ChainedTo, AwakeSinceWake,
     NothingBeforeRegistration
<1>2. TypeOK /\ WakeInv /\ [PowerNext]_powerVars =>
        [Handle /\ deinitPc = "none"
           /\ sysTimeMgrHandlePwrEventData(evt.cur, evt.new) = "DEEP_SLEEP_OFF"
         => lastCall # "DEEP_SLEEP_OFF"]_powerVars
  <2> SUFFICES ASSUME TypeOK, WakeInv, Handle, deinitPc = "none",
                      sysTimeMgrHandlePwrEventData(evt.cur, evt.new)
                        = "DEEP_SLEEP_OFF"
               PROVE  lastCall # "DEEP_SLEEP_OFF"
    BY Zenon
  <2>1. evt.cur \in Feed!PowerStates /\ evt.new \in Feed!PowerStates
    BY DEF TypeOK, Feed!Changes
  <2>2. evt.cur = "DEEP_SLEEP"
    BY <2>1 DEF sysTimeMgrHandlePwrEventData, Feed!PowerStates
  <2>3. evtPc = "handle" /\ AwakeSinceWake
    BY Zenon DEF Handle, WakeInv
  <2> QED
    BY <2>2, <2>3 DEF AwakeSinceWake, NextStart
<1> QED
  BY <1>1, <1>2, WakeNextInv, TypeCorrect, PTL DEF PowerSpec, WakeNeedsSleep
=============================================================================
