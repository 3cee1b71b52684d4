--------------------------- MODULE CtlThreadsProofs ----------------------------
(***************************************************************************)
(* Proofs about the controller's threads, for every set of commands, any   *)
(* number of beacon threads and behaviours of any length.                  *)
(***************************************************************************)
EXTENDS CtlThreads, TLAPS

(***************************************************************************)
(* The main loop and the ping thread share status, halting and exiting.    *)
(* While the main loop ends a thread, status says that there is one and    *)
(* halting is clear; exiting is set only while it waits.  When status says *)
(* that there is no thread, the flags are clear, so the next one finds     *)
(* them so, although they are reset after it was created.                  *)
(***************************************************************************)
PingInv ==
  /\ main \in {"signal", "exit", "join", "cont"} => status # "off" /\ ~halting
  /\ main \in {"reset", "create"} => status = "off"
  /\ main = "create" => ping = "none"
  /\ exiting => main = "join"
  /\ status = "off" => ~halting
  /\ status = "off" /\ main # "reset" => ping = "none"

(***************************************************************************)
(* The thread that watches is the one the main loop knows, unless a wakeup *)
(* that nobody sent has ended it, and the main loop signals and waits only *)
(* with the run flag cleared.                                              *)
(***************************************************************************)
MonInv ==
  /\ main \in {"wake", "mon_signal", "mon_join", "quit_signal", "quit_join"}
       => ~run
  /\ run => tid # None /\ mon[tid] \in {"top", "body", "asleep", "woken"}

USE DEF MainAt, PingAt, MonAt

LEMMA BoundIsNat == MaxCmd \in Nat
  BY ThreadsAssumption, Zenon

LEMMA InitInv == Init => TypeOK /\ PingInv /\ MonInv
<1>1. Init => cmds \in 0 .. MaxCmd /\ mon \in [Monitors -> MonAt]
  BY BoundIsNat DEF Init
<1>2. Init => PingInv /\ MonInv
  BY DEF Init, PingInv, MonInv
<1> QED BY <1>1, <1>2 DEF Init, TypeOK

LEMMA CountStep ==
  ASSUME TypeOK, NEW c, Command(c)
  PROVE  cmds' \in 0 .. MaxCmd
<1>1. cmds \in 0 .. MaxCmd
  BY DEF TypeOK
<1>2. cmds < MaxCmd /\ cmds' = cmds + 1
  BY DEF Command
<1> QED BY <1>1, <1>2, BoundIsNat

\* Every step keeps every thread at a place its function has.
LEMMA TypeStep == TypeOK /\ [Next]_vars => TypeOK'
<1> SUFFICES ASSUME TypeOK, [Next]_vars PROVE TypeOK'
  OBVIOUS
<1>1. CASE Operator
  <2>1. CASE PingOn \/ PingOff \/ PingRestart \/ PingStop \/ PingCont
    <3>1. cmds' \in 0 .. MaxCmd
      BY <2>1, CountStep DEF PingOn, PingOff, PingRestart, PingStop, PingCont
    <3>2. UNCHANGED monvars
      BY <2>1 DEF PingOn, PingOff, PingRestart, PingStop, PingCont
    <3>3. /\ main' \in MainAt /\ after' \in {"idle", "create", "end"}
          /\ status' \in {"on", "off", "stop"} /\ ping' \in PingAt
          /\ halting' \in BOOLEAN /\ exiting' \in BOOLEAN
      BY <2>1 DEF TypeOK, PingOn, PingOff, PingRestart, PingStop, PingCont,
                  CreatePing, EndPing, Command
    <3> QED BY <3>1, <3>2, <3>3 DEF TypeOK, monvars
  <2>2. CASE SetCount
    <3>1. cmds' \in 0 .. MaxCmd
      BY <2>2, CountStep DEF SetCount
    <3>2. UNCHANGED <<main, pingvars>> /\ run' = TRUE
      BY <2>2 DEF SetCount
    <3> DEFINE SocksType ==
          /\ tid' \in Monitors \union {None} /\ mon' \in [Monitors -> MonAt]
          /\ socks' = {m \in Monitors : mon'[m] \in {"top", "body", "asleep"}}
    <3>3. SocksType
      <4>1. CASE UNCHANGED <<tid, mon, socks>>
        BY <4>1 DEF TypeOK
      <4>2. ASSUME NEW m \in Monitors, CreateMonitor(m) PROVE SocksType
        BY <4>2 DEF TypeOK, CreateMonitor
      <4> QED BY <2>2, <4>1, <4>2 DEF SetCount
    <3> QED BY <3>1, <3>2, <3>3 DEF TypeOK, pingvars
  <2>3. CASE SetZero \/ WifiOff \/ Quit
    <3>1. cmds' \in 0 .. MaxCmd
      BY <2>3, CountStep DEF SetZero, WifiOff, Quit, ClearRun
    <3> QED BY <2>3, <3>1 DEF TypeOK, SetZero, WifiOff, Quit, ClearRun,
                              pingvars
  <2> QED BY <1>1, <2>1, <2>2, <2>3 DEF Operator
<1>2. CASE Main
  <2>1. CASE PingReset \/ SetExiting \/ JoinPing \/ RestartPing
    BY <2>1 DEF TypeOK, PingReset, SetExiting, JoinPing, RestartPing,
                CreatePing, monvars
  <2>2. CASE PingSignal
    BY <2>2 DEF TypeOK, PingSignal, Signalled, monvars
  <2>3. CASE MonSignal
    <3>1. /\ mon' \in [Monitors -> MonAt]
          /\ socks' = {m \in Monitors : mon'[m] \in {"top", "body", "asleep"}}
      BY <2>3 DEF TypeOK, MonSignal, Ends
    <3>2. main' \in MainAt /\ UNCHANGED <<pingvars, run, tid, cmds>>
      BY <2>3 DEF MonSignal, AfterWake
    <3> QED BY <3>1, <3>2 DEF TypeOK, pingvars
  <2>4. CASE JoinMon
    <3>1. main' \in MainAt /\ after' \in {"idle", "create", "end"}
      BY <2>4 DEF TypeOK, JoinMon, EndPing, pingvars
    <3>2. UNCHANGED <<status, exiting, ping>> /\ halting' \in BOOLEAN
      BY <2>4 DEF TypeOK, JoinMon, EndPing, pingvars
    <3> QED BY <2>4, <3>1, <3>2 DEF TypeOK, JoinMon, monvars
  <2> QED BY <1>2, <2>1, <2>2, <2>3, <2>4 DEF Main
<1>3. CASE PingThread
  BY <1>3 DEF TypeOK, PingThread, PingMoves, monvars
<1>4. ASSUME NEW m \in Monitors, Monitor(m) \/ SpuriousWake(m)
      PROVE  TypeOK'
  BY <1>4 DEF TypeOK, Monitor, SpuriousWake, MonMoves, Ends, pingvars
<1>5. CASE UNCHANGED vars
  BY <1>5 DEF TypeOK, vars
<1> QED BY <1>1, <1>2, <1>3, <1>4, <1>5 DEF Next

LEMMA PingStep == TypeOK /\ PingInv /\ [Next]_vars => PingInv'
<1> SUFFICES ASSUME TypeOK, PingInv, [Next]_vars PROVE PingInv'
  OBVIOUS
<1>1. CASE Operator
  <2>1. CASE PingOn \/ PingRestart
    BY <2>1 DEF TypeOK, PingInv, PingOn, PingRestart, Command, CreatePing,
                EndPing
  <2>2. CASE PingOff \/ PingStop \/ PingCont
    BY <2>2 DEF TypeOK, PingInv, PingOff, PingStop, PingCont, Command, EndPing
  <2>3. CASE SetCount \/ SetZero \/ WifiOff \/ Quit
    BY <2>3 DEF TypeOK, PingInv, SetCount, SetZero, WifiOff, Quit, ClearRun,
                Command, pingvars
  <2> QED BY <1>1, <2>1, <2>2, <2>3 DEF Operator
<1>2. CASE Main
  <2>1. CASE PingReset \/ SetExiting
    BY <2>1 DEF TypeOK, PingInv, PingReset, SetExiting
  <2>2. CASE PingSignal
    BY <2>2 DEF TypeOK, PingInv, PingSignal, Signalled
  <2>3. CASE JoinPing \/ RestartPing
    BY <2>3 DEF TypeOK, PingInv, JoinPing, RestartPing, CreatePing
  <2>4. CASE MonSignal
    BY <2>4 DEF TypeOK, PingInv, MonSignal, AfterWake, pingvars
  <2>5. CASE JoinMon
    BY <2>5 DEF TypeOK, PingInv, JoinMon, EndPing, pingvars
  <2> QED BY <1>2, <2>1, <2>2, <2>3, <2>4, <2>5 DEF Main
<1>3. CASE PingThread
  <2>1. UNCHANGED <<main, status, halting, exiting>>
    BY <1>3 DEF PingThread
  <2>2. ping = "none" => ping' = "none"
    BY <1>3 DEF PingThread, PingMoves
  <2> QED BY <2>1, <2>2 DEF PingInv
<1>4. ASSUME NEW m \in Monitors, Monitor(m) \/ SpuriousWake(m)
      PROVE  PingInv'
  BY <1>4 DEF PingInv, Monitor, SpuriousWake, pingvars
<1>5. CASE UNCHANGED vars
  BY <1>5 DEF PingInv, vars, pingvars
<1> QED BY <1>1, <1>2, <1>3, <1>4, <1>5 DEF Next

\* The monitor's half of the invariant.
LEMMA MonStep ==
  ASSUME TypeOK, MonInv, [Next]_vars
  PROVE  MonInv'
<1> None \notin Monitors
  BY ThreadsAssumption, Zenon
<1>1. CASE Operator
  <2>1. CASE PingOn \/ PingOff \/ PingRestart \/ PingStop \/ PingCont
    BY <2>1 DEF MonInv, PingOn, PingOff, PingRestart, PingStop, PingCont,
                Command, CreatePing, EndPing, monvars
  <2>2. CASE SetCount
    BY <2>2 DEF TypeOK, MonInv, SetCount, CreateMonitor, Command, pingvars
  <2>3. CASE SetZero \/ WifiOff \/ Quit
    BY <2>3 DEF MonInv, SetZero, WifiOff, Quit, ClearRun, Command
  <2> QED BY <1>1, <2>1, <2>2, <2>3 DEF Operator
<1>2. CASE Main
  <2>1. CASE PingReset \/ SetExiting \/ PingSignal \/ RestartPing
    BY <2>1 DEF MonInv, PingReset, SetExiting, PingSignal, RestartPing,
                CreatePing, monvars
  <2>2. CASE JoinPing
    BY <2>2 DEF TypeOK, MonInv, JoinPing, monvars
  <2>3. CASE MonSignal
    <3>1. ~run /\ run' = run
      BY <2>3 DEF MonInv, MonSignal
    <3> QED BY <3>1 DEF MonInv
  <2>4. CASE JoinMon
    <3>1. ~run /\ run' = run
      BY <2>4 DEF MonInv, JoinMon, monvars
    <3> QED BY <3>1 DEF MonInv
  <2> QED BY <1>2, <2>1, <2>2, <2>3, <2>4 DEF Main
<1>3. CASE PingThread
  BY <1>3 DEF MonInv, PingThread, monvars
<1>4. ASSUME NEW m \in Monitors, Monitor(m)
      PROVE  MonInv'
  BY <1>4 DEF TypeOK, MonInv, Monitor, MonMoves, Ends
<1>5. ASSUME NEW m \in Monitors, SpuriousWake(m)
      PROVE  MonInv'
  BY <1>5 DEF TypeOK, MonInv, SpuriousWake, Ends
<1>6. CASE UNCHANGED vars
  BY <1>6 DEF MonInv, vars, monvars
<1> QED BY <1>1, <1>2, <1>3, <1>4, <1>5, <1>6 DEF Next

-------------------------------------------------------------------------------
(* The theorems. *)

\* Every thread of the controller stays at a place its function has.
THEOREM ThreadsTypeCorrect == Spec => []TypeOK
<1>1. Init => TypeOK
  BY InitInv
<1> QED BY <1>1, TypeStep, PTL DEF Spec

\* The invariant of the ping thread's flags, for every sequence of commands.
LEMMA PingAlways == Spec => [](TypeOK /\ PingInv)
<1>1. Init => TypeOK /\ PingInv
  BY InitInv
<1>2. TypeOK /\ PingInv /\ [Next]_vars => (TypeOK /\ PingInv)'
  BY TypeStep, PingStep
<1> QED BY <1>1, <1>2, PTL DEF Spec

\* While pingstatus is PINGOFF no ping thread runs (cngictrl.c 630).
THEOREM PingOffIsOff == Spec => []OffIsOff
<1>1. TypeOK /\ PingInv => OffIsOff
  BY DEF PingInv, OffIsOff
<1> QED BY <1>1, PingAlways, PTL

\* A new ping thread finds clean flags (cngictrl.c 638, 639).
THEOREM PingStartsFresh == Spec => []FreshFlags
<1>1. TypeOK /\ PingInv => FreshFlags
  BY DEF PingInv, FreshFlags
<1> QED BY <1>1, PingAlways, PTL

\* While the run flag is on the thread started last watches the beacons, unless
\* a wakeup that nobody sent has ended it (bmisscntDetect, setbmisscnt).
THEOREM BeaconsWatched == Spec => []MonitorLives
<1>1. Init => TypeOK /\ MonInv
  BY InitInv
<1>2. TypeOK /\ MonInv /\ [Next]_vars => (TypeOK /\ MonInv)'
  BY TypeStep, MonStep
<1>3. TypeOK /\ MonInv => MonitorLives
  BY DEF TypeOK, MonInv, Alive, MonitorLives
<1> QED BY <1>1, <1>2, <1>3, PTL DEF Spec
================================================================================
