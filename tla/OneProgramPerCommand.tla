----------------------- MODULE OneProgramPerCommand -----------------------
(***************************************************************************)
(* What the mill connection promises, without any protocol.  A command is  *)
(* recorded before anything else happens to it; its program is begun at    *)
(* most once, never beside another one, and ends by itself or is stopped;  *)
(* and the controller's word "completed" is only given of a program that   *)
(* has ended, of a machining program only when it reached its end.         *)
(***************************************************************************)
EXTENDS Naturals

CONSTANT Commands

VARIABLES part, verdict

svars == <<part, verdict>>

SInit ==
  /\ part = [s \in Commands |-> "none"]
  /\ verdict = [s \in Commands |-> "absent"]

Record(s) ==
  /\ verdict[s] = "absent"
  /\ verdict' = [verdict EXCEPT ![s] = "open"]
  /\ UNCHANGED part

Begin(s) ==
  /\ verdict[s] = "open"
  /\ part[s] = "none"
  /\ \A t \in Commands : part[t] # "running"
  /\ part' = [part EXCEPT ![s] = "running"]
  /\ UNCHANGED verdict

End(s) ==
  /\ part[s] = "running"
  /\ \E p \in {"finished", "stopped"} : part' = [part EXCEPT ![s] = p]
  /\ UNCHANGED verdict

\* "ended" stands for completed without a completion record, which only
\* says that the mill is idle again; the rest of the outcomes is "open".
Report(s) ==
  \/ /\ part[s] = "finished"
     /\ verdict' = [verdict EXCEPT ![s] = "finished"]
     /\ UNCHANGED part
  \/ /\ part[s] \in {"finished", "stopped"}
     /\ verdict' = [verdict EXCEPT ![s] = "ended"]
     /\ UNCHANGED part

\* A later writer may lose sight of the verdict, which changes nothing at the mill.
Forget(s) ==
  /\ verdict[s] \in {"finished", "ended"}
  /\ verdict' = [verdict EXCEPT ![s] = "open"]
  /\ UNCHANGED part

SNext == \E s \in Commands : Record(s) \/ Begin(s) \/ End(s) \/ Report(s) \/ Forget(s)

SSpec == SInit /\ [][SNext]_svars
=============================================================================
