---------------------- MODULE RdkDefaultTimeSync_proofs ----------------------
(***************************************************************************)
(* The properties of the default time sync, for every build time, every    *)
(* set of clock values and every bound.                                    *)
(***************************************************************************)
EXTENDS RdkDefaultTimeSync, TLAPS

\* FileIsNotAhead needs no more than the types of the variables and the fact
\* that nothing is being written before the process runs.  What the properties
\* of the startup need beside it: clock_settime() is reached with a clock
\* reading that was not ahead.
IInv ==
  /\ TypeOK
  /\ FileIsNotAhead
  /\ phase # "running" => updatetime = -1
  /\ phase # "set" => currenttime = 0
  /\ currenttime <= m_currentTime

\* getTime() is at least the build time and at least the file's time.
LEMMA GetTimeIsLatest ==
  ASSUME TypeOK
  PROVE  getTime \in Nat /\ getTime >= BuildTime /\ getTime >= file
BY TimeSyncAssumption DEF TypeOK, getTime

\* Advance() moves m_currentTime to at least where it was and at least to
\* the given time.
LEMMA AdvanceIsMonotone ==
  ASSUME TypeOK, NEW time \in Nat
  PROVE  /\ Advance(time) \in Nat
         /\ Advance(time) >= m_currentTime
         /\ Advance(time) >= time
BY DEF TypeOK, Advance

LEMMA InitIInv == Init => IInv
<1> SUFFICES ASSUME Init PROVE IInv
  OBVIOUS
<1>1. phase = "down"
  BY DEF Init
<1>2. /\ currenttime = 0 /\ currenttime <= m_currentTime
      /\ file \in Nat /\ m_currentTime \in Nat /\ clock \in Nat
      /\ updatetime \in Nat \cup {-1} /\ saved \in Nat /\ updatetime = -1
  BY TimeSyncAssumption DEF Init
<1> QED
  BY <1>1, <1>2 DEF IInv, TypeOK, FileIsNotAhead, Alive

LEMMA NextIInv == IInv /\ [Next]_vars => IInv'
<1> SUFFICES ASSUME IInv, [Next]_vars PROVE IInv'
  OBVIOUS
<1> USE DEF IInv, Alive
<1>1. CASE Start
  <2>1. getTime \in Nat /\ getTime >= BuildTime /\ getTime >= file
    BY GetTimeIsLatest
  <2> QED
    BY <1>1, <2>1, TimeSyncAssumption DEF Start, TypeOK, FileIsNotAhead
<1>2. CASE updateTime
  <2>1. PICK locTime \in {0} \cup Clocks : BeginUpdate(locTime)
    BY <1>2 DEF updateTime
  <2> DEFINE time == IF locTime = 0 THEN clock ELSE locTime
  <2>2. time \in Nat
    BY TimeSyncAssumption DEF TypeOK
  <2>3. /\ Advance(time) \in Nat
        /\ Advance(time) >= m_currentTime
        /\ Advance(time) >= time
    BY <2>2, AdvanceIsMonotone
  <2>4. /\ phase = "running" /\ updatetime = -1
        /\ m_currentTime' = Advance(time)
        /\ \/ updatetime' = time /\ file' = 0
           \/ UNCHANGED <<updatetime, file>>
        /\ UNCHANGED <<phase, currenttime, clock, saved>>
    BY <2>1 DEF BeginUpdate, ToWrite
  <2> HIDE DEF time
  <2> QED
    BY <2>2, <2>3, <2>4, TimeSyncAssumption DEF TypeOK, FileIsNotAhead
<1>3. CASE EndUpdate
  BY <1>3 DEF EndUpdate, TypeOK, FileIsNotAhead
<1>4. CASE ClockStep
  BY <1>4, TimeSyncAssumption DEF ClockStep, TypeOK, FileIsNotAhead
<1>5. CASE Kill
  BY <1>5 DEF Kill, TypeOK, FileIsNotAhead
<1>6. CASE PowerLoss
  BY <1>6, TimeSyncAssumption DEF PowerLoss, TypeOK, FileIsNotAhead
<1>7. CASE UNCHANGED vars
  BY <1>7 DEF vars, TypeOK, FileIsNotAhead
<1>8. CASE CheckClock
  BY <1>8 DEF CheckClock, TypeOK, FileIsNotAhead
<1>9. CASE SetClock
  BY <1>9 DEF SetClock, TypeOK, FileIsNotAhead
<1> QED
  BY <1>1, <1>2, <1>3, <1>4, <1>5, <1>6, <1>7, <1>8, <1>9 DEF Next

\* The type invariant of the default time sync.
THEOREM TypeCorrect == Spec => []TypeOK
BY InitIInv, NextIInv, PTL DEF Spec, IInv

\* Neither the file nor a value on its way to it is ever ahead of
\* m_currentTime, which is never before the build time.
THEOREM FileNeverAhead == Spec => []FileIsNotAhead
BY InitIInv, NextIInv, PTL DEF Spec, IInv

\* updateTime() never moves m_currentTime back.
THEOREM MonotoneTime == Spec => CurrentTimeIsMonotone
<1>1. IInv /\ [Next]_vars =>
        [Alive /\ Alive' => m_currentTime' >= m_currentTime]_vars
  <2> SUFFICES ASSUME IInv, Next, Alive, Alive'
               PROVE  m_currentTime' >= m_currentTime
    BY DEF vars, IInv, TypeOK
  <2> USE DEF IInv, Alive
  <2>1. CASE updateTime
    <3>1. PICK locTime \in {0} \cup Clocks : BeginUpdate(locTime)
      BY <2>1 DEF updateTime
    <3> DEFINE time == IF locTime = 0 THEN clock ELSE locTime
    <3>2. time \in Nat
      BY TimeSyncAssumption DEF TypeOK
    <3>3. m_currentTime' = Advance(time)
      BY <3>1 DEF BeginUpdate
    <3> HIDE DEF time
    <3> QED
      BY <3>2, <3>3, AdvanceIsMonotone
  <2>2. CASE CheckClock \/ SetClock \/ EndUpdate \/ ClockStep
    BY <2>2 DEF CheckClock, SetClock, EndUpdate, ClockStep, TypeOK
  <2> QED
    BY <2>1, <2>2 DEF Next, Start, Kill, PowerLoss
<1> QED
  BY InitIInv, NextIInv, <1>1, PTL DEF Spec, CurrentTimeIsMonotone

\* A startup that leaves or sets the clock leaves it at or after the build
\* time, the time in the file and the reading it decided by.
THEOREM StartNotInThePast == Spec => StartIsNotInThePast
<1> DEFINE Ends == /\ phase \in {"check", "set"} /\ phase' = "running"
                   /\ phase = "check" \/ clock' # clock
           Late == clock' >= BuildTime /\ clock' >= file /\ clock' >= currenttime
<1>1. IInv /\ [Next]_vars => [Ends => Late]_vars
  <2> SUFFICES ASSUME IInv, Next, Ends PROVE Late
    BY DEF vars
  <2>1. /\ clock \in Nat /\ file \in Nat /\ BuildTime \in Nat
        /\ m_currentTime \in Nat /\ currenttime \in Nat
        /\ file <= m_currentTime /\ BuildTime <= m_currentTime
        /\ currenttime <= m_currentTime
    BY TimeSyncAssumption DEF IInv, TypeOK, FileIsNotAhead, Alive
  <2>2. CheckClock \/ SetClock
    BY DEF Next, Start, updateTime, BeginUpdate, EndUpdate, ClockStep, Kill,
           PowerLoss, Alive, IInv
  <2>3. CASE CheckClock
    BY <2>1, <2>3 DEF CheckClock
  <2>4. CASE SetClock
    BY <2>1, <2>4 DEF SetClock
  <2> QED
    BY <2>2, <2>3, <2>4
<1> QED
  BY InitIInv, NextIInv, <1>1, PTL DEF Spec, StartIsNotInThePast
=============================================================================
