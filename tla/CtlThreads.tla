------------------------------ MODULE CtlThreads ------------------------------
(***************************************************************************)
(* The threads of the connection controller (cngictrl.c, cngictrl.h,       *)
(* ping.c): the main loop, which gives commands to a ping thread and to    *)
(* threads that watch for missed beacons, and waits for them to end.       *)
(*                                                                         *)
(* They share plain int flags.  A condition variable wakes a sleeper, but  *)
(* each sleeper waits with a mutex of its own and nobody signals under it: *)
(* a signal sent before the sleeper sleeps is lost.  While the main loop   *)
(* waits in pthread_join, requests of the mobile node daemon stay          *)
(* unanswered (module Controller).                                         *)
(***************************************************************************)
EXTENDS Naturals

CONSTANTS
  Commands,    \* the commands the operator gives
  Monitors,    \* the beacon threads that can be started in a behaviour
  None,        \* no beacon thread: tid_bmisscntDetect is 0
  MaxCmd       \* bound: commands of a behaviour

ASSUME ThreadsAssumption ==
  /\ Commands \subseteq {"ping_on", "ping_off", "ping_stop", "ping_cont",
                         "ping_restart", "set", "set_0", "wifi_off", "quit"}
  /\ None \notin Monitors
  /\ MaxCmd \in Nat

VARIABLES
  main,        \* what the main loop is doing
  after,       \* what it does when the ping thread has ended
  status,      \* pingstatus
  halting, exiting,
  ping,        \* where the ping thread is
  run,         \* bmisscntDetect_run
  tid,         \* tid_bmisscntDetect
  mon,         \* where each beacon thread is
  socks,       \* the beacon threads whose socket is open
  cmds         \* commands given

pingvars == <<status, halting, exiting, ping, after>>
monvars == <<run, tid, mon, socks>>
vars == <<main, after, status, halting, exiting, ping, run, tid, mon, socks,
          cmds>>

MainAt == {"idle", "signal", "exit", "join", "create", "reset", "cont",
           "wake", "mon_signal", "mon_join", "quit_signal", "quit_join", "end"}
PingAt == {"none", "setup", "top", "halt", "to_sleep", "asleep", "pinger",
           "pinger_halt", "to_nap", "napping", "receive", "done"}
\* A beacon thread that has ended is "done", or "woken" if nobody had told it.
MonAt == {"none", "top", "body", "asleep", "done", "woken"}

\* The type invariant: every thread is at a place its function has, and only a
\* beacon thread that runs has a socket.
TypeOK ==
  /\ main \in MainAt /\ after \in {"idle", "create", "end"}
  /\ status \in {"on", "off", "stop"}
  /\ halting \in BOOLEAN /\ exiting \in BOOLEAN /\ run \in BOOLEAN
  /\ ping \in PingAt /\ tid \in Monitors \union {None}
  /\ mon \in [Monitors -> MonAt] /\ cmds \in 0 .. MaxCmd
  /\ socks = {m \in Monitors : mon[m] \in {"top", "body", "asleep"}}

Init ==
  /\ main = "idle" /\ after = "idle" /\ status = "off"
  /\ halting = FALSE /\ exiting = FALSE /\ ping = "none"
  /\ run = FALSE /\ tid = None /\ mon = [m \in Monitors |-> "none"]
  /\ socks = {} /\ cmds = 0

Command(c) ==
  /\ c \in Commands /\ main = "idle" /\ cmds < MaxCmd
  /\ cmds' = cmds + 1

-------------------------------------------------------------------------------
(* The main loop: ping commands.                                           *)

\* pthread_create; the flags are set when the thread may already run.
CreatePing ==
  /\ ping' = "setup" /\ main' = "reset"
  /\ UNCHANGED <<status, halting, exiting, after>>

PingOn ==
  /\ Command("ping_on") /\ status = "off"
  /\ CreatePing
  /\ UNCHANGED monvars

PingReset ==
  /\ main = "reset"
  /\ status' = "on" /\ halting' = FALSE /\ exiting' = FALSE /\ main' = "idle"
  /\ UNCHANGED <<ping, after, monvars, cmds>>

\* End the ping thread, then go on with `next`.
EndPing(next) ==
  /\ after' = next
  /\ halting' = FALSE
  /\ main' = IF halting THEN "signal" ELSE "exit"
  /\ UNCHANGED <<status, exiting, ping>>

PingOff ==
  /\ Command("ping_off") /\ status # "off"
  /\ EndPing("idle")
  /\ UNCHANGED monvars

PingRestart ==
  /\ Command("ping_restart")
  /\ IF status = "off" THEN CreatePing ELSE EndPing("create")
  /\ UNCHANGED monvars

PingStop ==
  /\ Command("ping_stop") /\ status = "on"
  /\ halting' = TRUE /\ status' = "stop"
  /\ UNCHANGED <<main, after, exiting, ping, monvars>>

PingCont ==
  /\ Command("ping_cont") /\ status = "stop"
  /\ halting' = FALSE /\ main' = "cont"
  /\ UNCHANGED <<after, status, exiting, ping, monvars>>

\* pthread_cond_signal(&cond_ping_on): it wakes a thread that sleeps.
Signalled ==
  ping' = CASE ping = "asleep" -> "pinger" [] ping = "napping" -> "receive"
            [] OTHER -> ping

PingSignal ==
  /\ main \in {"signal", "cont"}
  /\ Signalled
  /\ IF main = "signal" THEN main' = "exit" /\ UNCHANGED status
                        ELSE main' = "idle" /\ status' = "on"
  /\ UNCHANGED <<after, halting, exiting, monvars, cmds>>

SetExiting ==
  /\ main = "exit"
  /\ exiting' = TRUE /\ main' = "join"
  /\ UNCHANGED <<after, status, halting, ping, monvars, cmds>>

\* Mutant: the main loop does not wait.
JoinPing_NoWait ==
  /\ main = "join"
  /\ exiting' = FALSE /\ status' = "off" /\ main' = after
  /\ ping' = IF ping = "done" THEN "none" ELSE ping
  /\ UNCHANGED <<after, halting, monvars, cmds>>

\* pthread_join, and the flags for the next thread.
JoinPing ==
  /\ main = "join" /\ ping = "done"
  /\ ping' = "none" /\ exiting' = FALSE /\ status' = "off" /\ main' = after
  /\ UNCHANGED <<after, halting, monvars, cmds>>

RestartPing ==
  /\ main = "create"
  /\ CreatePing
  /\ UNCHANGED <<monvars, cmds>>

-------------------------------------------------------------------------------
(* The main loop: beacon commands.                                         *)

\* pthread_create; the thread opens its socket.
CreateMonitor(m) ==
  /\ mon[m] = "none" /\ mon' = [mon EXCEPT ![m] = "top"] /\ tid' = m
  /\ socks' = socks \union {m}

\* Mutant: a thread whose wait has failed returns from inside the loop.
Ends_Early(m, to) ==
  mon' = [mon EXCEPT ![m] = to] /\ socks' = (IF mon[m] = "top" THEN socks \ {m} ELSE socks)

\* A beacon thread ends: behind the loop it closes its socket.
Ends(m, to) == mon' = [mon EXCEPT ![m] = to] /\ socks' = socks \ {m}

\* Mutant: a thread is only created the first time.
SetCount_Once ==
  /\ Command("set") /\ run' = TRUE
  /\ IF tid = None
     THEN \E m \in Monitors : CreateMonitor(m)
     ELSE UNCHANGED <<tid, mon, socks>>
  /\ UNCHANGED <<main, pingvars>>

\* setbmisscnt <cnt>: one thread is started if the flag says that none runs.
SetCount ==
  /\ Command("set") /\ run' = TRUE
  /\ IF run THEN UNCHANGED <<tid, mon, socks>>
     ELSE \E m \in Monitors : CreateMonitor(m)
  /\ UNCHANGED <<main, pingvars>>

ClearRun(c) == Command(c) /\ run' = FALSE /\ UNCHANGED <<tid, mon, socks, pingvars>>

SetZero == ClearRun("set_0") /\ main' = "mon_signal"
WifiOff == ClearRun("wifi_off") /\ main' = "wake"
Quit == ClearRun("quit") /\ main' = "quit_signal"

\* `wifi off` does not wait for the thread.
AfterWake(m) ==
  CASE m = "wake" -> "idle" [] m = "mon_signal" -> "mon_join"
    [] OTHER -> "quit_join"

\* pthread_cond_signal(&cond_bmisscntDetect): one sleeper wakes, if there is
\* one, and ends.
MonSignal ==
  /\ main \in {"wake", "mon_signal", "quit_signal"}
  /\ main' = AfterWake(main)
  /\ LET asleep == {m \in Monitors : mon[m] = "asleep"} IN
       IF asleep = {} THEN UNCHANGED <<mon, socks>>
       ELSE \E m \in asleep : Ends(m, "done")
  /\ UNCHANGED <<pingvars, run, tid, cmds>>

\* pthread_join of the last thread started; without one it fails at once.
JoinMon ==
  /\ main \in {"mon_join", "quit_join"}
  /\ tid # None => mon[tid] \in {"done", "woken"}
  /\ IF main = "mon_join"
     THEN main' = "idle" /\ UNCHANGED pingvars
     ELSE IF status # "off" THEN EndPing("end")
                            ELSE main' = "end" /\ UNCHANGED pingvars
  /\ UNCHANGED <<monvars, cmds>>

Main == PingReset \/ PingSignal \/ SetExiting \/ JoinPing \/ RestartPing
          \/ MonSignal \/ JoinMon

Operator == PingOn \/ PingOff \/ PingRestart \/ PingStop \/ PingCont
              \/ SetCount \/ SetZero \/ WifiOff \/ Quit

-------------------------------------------------------------------------------
(* The ping thread. *)

PingMoves(from, to) == ping = from /\ ping' = to

\* ping, main_loop, pinger and ping_halt, one look at a flag each.  The sleep
\* of ping_halt ends after 1000 s, and ping_halt sleeps again.
PingThread ==
  /\ \/ PingMoves("setup", "top")
     \/ PingMoves("setup", "done")                 \* pthread_exit: no socket
     \/ PingMoves("top", IF exiting THEN "done" ELSE "halt")
     \/ PingMoves("halt", IF halting THEN "to_sleep" ELSE "pinger")
     \/ PingMoves("to_sleep", "asleep")
     \/ PingMoves("asleep", "to_sleep")
     \/ PingMoves("pinger", IF exiting THEN "receive" ELSE "pinger_halt")
     \/ PingMoves("pinger_halt", IF halting THEN "to_nap" ELSE "receive")
     \/ PingMoves("to_nap", "napping")
     \/ PingMoves("napping", "to_nap")
     \/ PingMoves("receive", "top")
  /\ UNCHANGED <<main, after, status, halting, exiting, monvars, cmds>>

-------------------------------------------------------------------------------
(* The beacon threads. *)

MonMoves(m, from, to) ==
  mon[m] = from /\ mon' = [mon EXCEPT ![m] = to] /\ UNCHANGED socks

\* Mutant: the thread does not look at its flag again.
Monitor_Forever(m) ==
  /\ \/ MonMoves(m, "top", "body")
     \/ MonMoves(m, "body", "asleep")
     \/ MonMoves(m, "asleep", "top")
  /\ UNCHANGED <<main, pingvars, run, tid, cmds>>

\* bmisscntDetect: look at the flag, count beacons, sleep.  A sleep that ends
\* with anything but a timeout ends the thread.
Monitor(m) ==
  /\ \/ run /\ MonMoves(m, "top", "body")
     \/ ~run /\ mon[m] = "top" /\ Ends(m, "done")
     \/ MonMoves(m, "body", "asleep")
     \/ MonMoves(m, "asleep", "top")
  /\ UNCHANGED <<main, pingvars, run, tid, cmds>>

\* pthread_cond_timedwait may return although nobody signalled, and it fails when
\* tv_nsec comes to a second or more (cngictrl.c:250).
SpuriousWake(m) ==
  /\ mon[m] = "asleep" /\ Ends(m, "woken")
  /\ UNCHANGED <<main, pingvars, run, tid, cmds>>

Next ==
  \/ Operator \/ Main \/ PingThread
  \/ \E m \in Monitors : Monitor(m) \/ SpuriousWake(m)

\* Threads that can run do; the operator gives commands as he likes.
Spec == Init /\ [][Next]_vars /\ WF_vars(Main) /\ WF_vars(PingThread)
          /\ \A m \in Monitors : WF_vars(Monitor(m))

-------------------------------------------------------------------------------
(* Properties. *)

Alive(m) == mon[m] \notin {"none", "done", "woken"}

\* The main loop does not stay in the join of a beacon thread, whichever
\* threads `wifi off` has left over, so that it comes back to its socket, where
\* the daemon's requests wait.
MonJoined ==
  main \in {"mon_join", "quit_join"} ~> main \notin {"mon_join", "quit_join"}

\* There is no ping thread while pingstatus is PINGOFF, so that two never run
\* on ping's global variables.
OffIsOff == status = "off" /\ main \notin {"reset"} => ping = "none"

\* A new ping thread finds neither flag of the last one: `ping on` resets them
\* only after it has created the thread.
FreshFlags == ping = "setup" /\ main = "reset" => ~exiting /\ ~halting

\* While the flag says that beacons are watched, the thread started last watches
\* them, unless a wakeup that nobody sent has ended it: no request of an earlier
\* command that is still under way, and no left-over thread, ends this one.
MonitorLives == run => tid # None /\ (Alive(tid) \/ mon[tid] = "woken")

-------------------------------------------------------------------------------
(* Statements of the sources that do not hold of the code; README.md says  *)
(* with which Commands TLC refutes each.                                   *)

\* Every command ends.
MainReturns == main \notin {"idle", "end"} ~> main \in {"idle", "end"}

\* cngictrl.c:113 ">0 - Enable": while the flag is on beacons are watched.
Watched == run => \E m \in Monitors : Alive(m)

\* After `setbmisscnt 0` no thread is left that changes networks.
ZeroDisables ==
  [][main = "mon_join" /\ main' = "idle" => \A m \in Monitors : ~Alive(m)]_vars
===============================================================================
