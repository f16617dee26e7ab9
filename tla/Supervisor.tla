----------------------------- MODULE Supervisor -----------------------------
(***************************************************************************)
(* multi_proxy_main: the parent process of puicagent and puicproxy, which  *)
(* runs one child process per listen address, restarts the ones that die   *)
(* and passes a stop signal on.  (The two programs' copies differ in the   *)
(* children's arguments only.)                                             *)
(*                                                                         *)
(* A child is a process of the operating system: it can be signalled       *)
(* before it has installed its handlers, it can crash at any time, and the *)
(* parent learns of its end only when its loop runs child_exit_cb.         *)
(***************************************************************************)
EXTENDS Naturals

CONSTANTS
    NumChildren,          \* listen addresses
    MaxCrashes            \* crashes of children, a bound on the environment

ASSUME CountsAssumption ==
    NumChildren \in Nat /\ MaxCrashes \in Nat

Child == 1 .. NumChildren

VARIABLES
    phase,                \* where _multi_proxy_main is
    spawned,              \* children spawned by its first loop
    proc,                 \* per child: the process behind its handle
    exit,                 \* per child: how its last process ended
    unsignalled,          \* per child: spawned after the SIGTERMs were sent
    crashes

vars == <<phase, spawned, proc, exit, unsignalled, crashes>>

(* "starting": before its signal handlers; "serving": in its first uv_run; *)
(* "stopping": told to stop; "dead": ended, child_exit_cb yet to run.      *)
Process == {"none", "starting", "serving", "stopping", "dead"}
Phase == {"spawning", "running", "stopped", "draining", "quit", "spawn failed",
          "killed"}

(* What waitpid says: a code the program returns itself, another code, a   *)
(* signal (its exit status is 0 then); or that uv_spawn did not start it.  *)
Exit == {"none", "code 0 or 1", "other code", "signal", "not started"}

Alive(i) == proc[i] \in {"starting", "serving", "stopping"}

Init ==
    /\ phase = "spawning" /\ spawned = 0
    /\ proc = [i \in Child |-> "none"]
    /\ exit = [i \in Child |-> "none"]
    /\ unsignalled = [i \in Child |-> FALSE]
    /\ crashes = 0

-----------------------------------------------------------------------------
(* The children.                                                           *)

(* proxy_main has started its signal handlers and its ProxyManager.        *)
Ready(i) ==
    /\ proc[i] = "starting"
    /\ proc' = [proc EXCEPT ![i] = "serving"]
    /\ UNCHANGED <<phase, spawned, exit, unsignalled, crashes>>

(* ProxyManager::Start fails, or main rejects its arguments: code 1.       *)
StartFails(i) ==
    /\ proc[i] = "starting"
    /\ proc' = [proc EXCEPT ![i] = "dead"]
    /\ exit' = [exit EXCEPT ![i] = "code 0 or 1"]
    /\ UNCHANGED <<phase, spawned, unsignalled, crashes>>

(* Told to stop, the child stops its manager, drains its loop, returns 0.  *)
Quits(i) ==
    /\ proc[i] = "stopping"
    /\ proc' = [proc EXCEPT ![i] = "dead"]
    /\ exit' = [exit EXCEPT ![i] = "code 0 or 1"]
    /\ UNCHANGED <<phase, spawned, unsignalled, crashes>>

Crashes(i, how) ==
    /\ crashes < MaxCrashes /\ Alive(i)
    /\ how \in {"other code", "signal"}
    /\ proc' = [proc EXCEPT ![i] = "dead"]
    /\ exit' = [exit EXCEPT ![i] = how]
    /\ crashes' = crashes + 1
    /\ UNCHANGED <<phase, spawned, unsignalled>>

(* A stop signal ends a child without handlers and stops one with them.    *)
(* A second one may end the child: proxy_main stops its handlers before it *)
(* drains its loop.  A signal to a process that is gone has no effect.     *)
Signalled(p) ==
    CASE p = "starting" -> {"dead"}
      [] p = "serving"  -> {"stopping"}
      [] p = "stopping" -> {"stopping", "dead"}
      [] OTHER          -> {p}

SignalChildren(S) ==
    /\ proc' \in [Child -> Process]
    /\ \A i \in Child :
          proc'[i] \in IF i \in S THEN Signalled(proc[i]) ELSE {proc[i]}
    /\ exit' = [i \in Child |->
                   IF Alive(i) /\ proc'[i] = "dead" THEN "signal" ELSE exit[i]]

-----------------------------------------------------------------------------
(* The parent.                                                             *)

(* The first loop of _multi_proxy_main; the last child spawned, the signal *)
(* handlers are started and the event loop runs.                           *)
Spawn ==
    /\ phase = "spawning" /\ spawned < NumChildren
    /\ spawned' = spawned + 1
    /\ proc' = [proc EXCEPT ![spawned + 1] = "starting"]
    /\ UNCHANGED <<phase, exit, unsignalled, crashes>>

(* The parent gives up and returns; it leaves the children it has alone.   *)
SpawnFails ==
    /\ phase = "spawning" /\ spawned < NumChildren
    /\ phase' = "spawn failed"
    /\ UNCHANGED <<spawned, proc, exit, unsignalled, crashes>>

StartHandlers ==
    /\ phase = "spawning" /\ spawned = NumChildren
    /\ phase' = "running"
    /\ UNCHANGED <<spawned, proc, exit, unsignalled, crashes>>

(* Seeded bug: the exit status alone decides; a signal leaves it 0.        *)
Restarts_StatusOnly(how) == how = "other code"

(* The test at the head of child_exit_cb.                                  *)
Restarts(how) == how # "code 0 or 1"

(* child_exit_cb: the loop runs it whether or not a stop is under way.     *)
ChildExit(i, started) ==
    /\ phase \in {"running", "draining"} /\ proc[i] = "dead"
    /\ IF Restarts(exit[i]) /\ started
       THEN /\ proc' = [proc EXCEPT ![i] = "starting"]
            /\ unsignalled' = [unsignalled EXCEPT ![i] = phase = "draining"]
            /\ UNCHANGED exit
       ELSE /\ proc' = [proc EXCEPT ![i] = "none"]
            /\ exit' = [exit EXCEPT ![i] =
                            IF Restarts(@) THEN "not started" ELSE @]
            /\ UNCHANGED unsignalled
    /\ UNCHANGED <<phase, spawned, crashes>>

(* SIGINT or SIGTERM to the parent: stop_signal_cb ends uv_run.  Before    *)
(* the handlers are started, and after they are stopped, the signal ends   *)
(* the parent itself.  From a terminal the children get the signal too.    *)
StopSignal(group) ==
    /\ phase' = CASE phase = "running" -> "stopped"
                  [] phase \in {"spawning", "draining"} -> "killed"
                  [] OTHER -> phase
    /\ SignalChildren(IF group THEN Child ELSE {})
    /\ UNCHANGED <<spawned, unsignalled, crashes>>

(* Seeded bug: the first child is left out.                                *)
KillChildren_ButOne ==
    /\ phase = "stopped"
    /\ SignalChildren(Child \ {1})
    /\ phase' = "draining"
    /\ UNCHANGED <<spawned, unsignalled, crashes>>

(* SIGTERM to every child, then the parent's handlers are stopped.         *)
KillChildren ==
    /\ phase = "stopped"
    /\ SignalChildren(Child)
    /\ phase' = "draining"
    /\ UNCHANGED <<spawned, unsignalled, crashes>>

(* The second uv_run returns when no handle is active.                     *)
Drained ==
    /\ phase = "draining" /\ \A i \in Child : proc[i] = "none"
    /\ phase' = "quit"
    /\ UNCHANGED <<spawned, proc, exit, unsignalled, crashes>>

-----------------------------------------------------------------------------
Next ==
    \/ Spawn \/ SpawnFails \/ StartHandlers
    \/ KillChildren \/ Drained
    \/ \E group \in BOOLEAN : StopSignal(group)
    \/ \E i \in Child :
          \/ Ready(i) \/ StartFails(i) \/ Quits(i)
          \/ \E how \in {"other code", "signal"} : Crashes(i, how)
          \/ \E started \in BOOLEAN : ChildExit(i, started)

Spec == Init /\ [][Next]_vars

(* The parent's code and its loop go on while the parent lives; a child    *)
(* told to stop does stop (which AgentRelay and ProxyRelay are about).     *)
(* Nothing is assumed of signals, crashes and failures.                    *)
Fairness ==
    /\ WF_vars(Spawn \/ SpawnFails \/ StartHandlers)
    /\ WF_vars(KillChildren) /\ WF_vars(Drained)
    /\ \A i \in Child :
          /\ WF_vars(Quits(i))
          /\ WF_vars(\E started \in BOOLEAN : ChildExit(i, started))

FairSpec == Spec /\ Fairness

-----------------------------------------------------------------------------
(* Properties.                                                             *)

(* The types of the variables; CrashedAreRestarted includes it.            *)
TypeOK ==
    /\ phase \in Phase /\ spawned \in 0 .. NumChildren
    /\ proc \in [Child -> Process] /\ exit \in [Child -> Exit]
    /\ unsignalled \in [Child -> BOOLEAN] /\ crashes \in 0 .. MaxCrashes

(* A child is given up only when it left by itself, with code 0 or 1, or   *)
(* could not be started again: every other end is followed by a new        *)
(* process while the parent's loop runs (child_exit_cb).                   *)
CrashedAreRestarted ==
    /\ [](TypeOK)
    /\ \A i \in Child :
          []((proc[i] = "dead" /\ exit[i] \in {"signal", "other code"})
                => <>(\/ Alive(i) \/ exit[i] = "not started"
                      \/ phase \in {"spawn failed", "killed"}))

(* "all proxies quit": the parent that was told to stop says so, and only  *)
(* when no child is left; what can keep it from getting there is one thing *)
(* only, a child that died abnormally at the wrong moment (a crash, or the *)
(* SIGTERM itself before the child had its handlers or after it had        *)
(* stopped them) and was spawned anew after the SIGTERMs had been sent.    *)
StopReachesAll ==
    /\ [](phase = "quit" => \A i \in Child : ~Alive(i))
    /\ [](phase = "stopped"
            => <>(\/ phase \in {"quit", "killed"}
                  \/ \E i \in Child : Alive(i) /\ unsignalled[i]))
=============================================================================
