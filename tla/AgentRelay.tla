----------------------------- MODULE AgentRelay -----------------------------
(***************************************************************************)
(* The agent (puicagent): it accepts TCP connections and opens a PUIC      *)
(* connection to the proxy for each.  The TCP connection does not call its *)
(* job, and is not read, before the PUIC connection is up.                 *)
(***************************************************************************)
EXTENDS Relay

(* ProxyJob::Start: the PUIC connection cannot be created, or breaks when  *)
(* it writes its first packet; or its handshake is under way.              *)
JobStart(j, t) ==
  \/ clean(j, t)
  \/ /\ tcp' = [tcp EXCEPT ![j] = t]
     /\ job' = [job EXCEPT ![j] = "running"]
     /\ puic' = [puic EXCEPT ![j].conn = "handshaking"]

(* uv_accept() fails, or a job starts. *)
Accept(j, t) ==
  \/ tcp' = [tcp EXCEPT ![j] = Close(t)] /\ UNCHANGED <<job, puic>>
  \/ JobStart(j, t)

on_uv_connection(j) ==
  /\ serving /\ tcp[j].uv = "none"
  /\ Accept(j, [tcp[j] EXCEPT !.uv = "open"])
  /\ UNCHANGED <<serving, peer>>

OnPUICConnConnected(j) ==
  /\ puic[j].conn = "handshaking"
  /\ puic' = [puic EXCEPT ![j].conn = "connected"]
  /\ tcp' = [tcp EXCEPT ![j] = StartRead([@ EXCEPT !.callback = TRUE])]
  /\ UNCHANGED <<serving, job, peer>>

Next ==
  \/ RelayNext
  \/ \E j \in Job : on_uv_connection(j) \/ OnPUICConnConnected(j)

Spec == Init /\ [][Next]_vars

(* A handshake ends, one way or the other: it has a timeout. *)
FairSpec == Spec /\ RelayFairness /\ \A j \in Job : WF_vars(OnPUICConnConnected(j))
=============================================================================
