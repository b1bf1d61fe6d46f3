---------------------------- MODULE ServiceProofs ----------------------------
(***************************************************************************)
(* Theorems about the process, for any number of workers and scrapers.     *)
(***************************************************************************)
EXTENDS Service, TLAPS

USE DEF cli, start, task, serve, io

\* Every reachable state is well typed.
THEOREM TypeCorrect == Spec => []TypeOK
<1>1. Init => TypeOK
  BY DEF Init, TypeOK
<1>2. TypeOK /\ [Next]_vars => TypeOK'
  <2> SUFFICES ASSUME TypeOK, [Next]_vars PROVE TypeOK'
    OBVIOUS
  <2> USE DEF TypeOK
  <2>1. CASE MainStep
    <3>1. CASE Bind
      BY <3>1 DEF Bind, Return, Addresses
    <3>4. CASE BindV4
      BY <3>4 DEF BindV4, Return, Addresses
    <3>5. CASE Announce \/ SpawnMonitor
      BY <3>5 DEF Announce, SpawnMonitor, Return
    <3>2. CASE Serve \/ Drain \/ ServerReturns \/ MonitorReturns
      BY <3>2 DEF Serve, Drain, ServerReturns, MonitorReturns, Return
    <3>3. CASE Exit
      BY <3>3 DEF Exit
    <3> QED BY <2>1, <3>1, <3>2, <3>3, <3>4, <3>5 DEF MainStep
  <2>2. CASE TaskStep
    BY <2>2 DEF TaskStep, MonitorYields, MonitorPrints, MonitorPrinted, MonitorPolled,
       MonitorPanics, MonitorJoined, SignalFires
  <2>3. CASE ConnStep
    BY <2>3 DEF ConnStep, Connect, Scrape, Reuse, Hangup, CloseIdle
  <2>4. CASE StreamBreaks
    <3>1. stdout' \in BOOLEAN /\ stderr' \in BOOLEAN
      BY <2>4, Zenon DEF StreamBreaks
    <3> QED BY <2>4, <3>1 DEF StreamBreaks
  <2>5. CASE ReaderStep
    <3>1. drained' \in BOOLEAN
      BY <2>5, Zenon DEF ReaderStep
    <3> QED BY <2>5, <3>1 DEF ReaderStep
  <2>6. CASE UNCHANGED vars
    BY <2>6 DEF vars
  <2> QED BY <2>1, <2>2, <2>3, <2>4, <2>5, <2>6 DEF Next
<1> QED BY <1>1, <1>2, PTL DEF Spec

-----------------------------------------------------------------------------
\* How far start got, and what each task has seen by then.
LifeInv ==
    /\ main \in {"bind", "bind_v4"} => listener = None
    /\ main \in {"bind", "bind_v4", "announce", "spawn"}
          => monitor = "none" /\ result = None /\ signal = "none"
    /\ main \in {"announce", "spawn", "select"} => listener # None
    /\ main = "select" => monitor # "none"
    /\ main = "bind_v4" => listen = "auto" /\ "v6" \notin bindable
    /\ server = "draining" => signal = "done"
    /\ sent => driver = "unsupported"
    /\ monitor \in {"unwound", "joined"} => ~stderr
    /\ signal = "done" /\ driver = "supported" => monitor \in {"unwound", "joined"}
    /\ BindingRespected
    /\ StopsForAReason

\* Each step of the process keeps it: the signal task waits for a message no
\* supported driver sends, or for the sender to go with the monitor.
LEMMA LifeInvStep == TypeOK /\ LifeInv /\ [Next]_vars => LifeInv'
<1> SUFFICES ASSUME TypeOK, LifeInv, [Next]_vars PROVE LifeInv'
  OBVIOUS
<1> USE ListensAssumption, DriversAssumption, ServiceNoneAssumption
    DEF LifeInv, BindingRespected, StopsForAReason, Alive
<1>1. CASE Bind
  BY <1>1 DEF Bind, Return, Addresses, TypeOK
<1>2. CASE BindV4
  BY <1>2 DEF BindV4, Return, Addresses, TypeOK
<1>3. CASE Announce
  BY <1>3 DEF Announce, Return
<1>4. CASE SpawnMonitor
  BY <1>4 DEF SpawnMonitor
<1>5. CASE Serve \/ Drain
  BY <1>5 DEF Serve, Drain
<1>6. CASE ServerReturns
  BY <1>6 DEF ServerReturns, Return
<1>7. CASE MonitorReturns
  BY <1>7 DEF MonitorReturns, Return
<1>8. CASE Exit
  BY <1>8 DEF Exit
<1>9. CASE MonitorYields
  BY <1>9 DEF MonitorYields
<1>10. CASE MonitorPrints \/ MonitorPrinted \/ MonitorPolled
  BY <1>10 DEF MonitorPrints, MonitorPrinted, MonitorPolled
<1>11. CASE MonitorPanics \/ MonitorJoined
  BY <1>11 DEF MonitorPanics, MonitorJoined
<1>12. CASE SignalFires
  BY <1>12 DEF SignalFires, TypeOK
<1>13. CASE ConnStep
  BY <1>13 DEF ConnStep, Connect, Scrape, Reuse, Hangup, CloseIdle
<1>14. CASE StreamBreaks \/ ReaderStep
  BY <1>14 DEF StreamBreaks, ReaderStep
<1>15. CASE UNCHANGED vars
  BY <1>15 DEF vars
<1> QED BY <1>1, <1>2, <1>3, <1>4, <1>5, <1>6, <1>7, <1>8, <1>9, <1>10, <1>11,
         <1>12, <1>13, <1>14, <1>15 DEF Next, MainStep, TaskStep

\* Nothing is bound at first.
LEMMA LifeInvInit == Init => LifeInv
<1> SUFFICES ASSUME Init PROVE LifeInv
  OBVIOUS
<1>1. ~sent
  BY DEF Init
<1>2. BindingRespected /\ StopsForAReason
  BY ServiceNoneAssumption DEF Init, BindingRespected, StopsForAReason, Addresses
<1> QED BY <1>1, <1>2 DEF Init, LifeInv

\* A supported driver is served until the monitor dies, whatever the schedule.
THEOREM AlwaysStopsForAReason == Spec => []StopsForAReason
<1>1. LifeInv => StopsForAReason
  BY DEF LifeInv
<1> QED BY <1>1, LifeInvInit, LifeInvStep, TypeCorrect, PTL DEF Spec

\* The address asked for is the address used.
THEOREM BindingAlwaysRespected == Spec => []BindingRespected
<1>1. LifeInv => BindingRespected
  BY DEF LifeInv
<1> QED BY <1>1, LifeInvInit, LifeInvStep, TypeCorrect, PTL DEF Spec
=============================================================================
