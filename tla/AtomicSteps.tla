---------------------------- MODULE AtomicSteps ----------------------------
(***************************************************************************)
(* What a movement promises about the arm, without any protocol: its       *)
(* atomic steps are begun in order, each one at most once, and it is       *)
(* reported as successful only when all of them were finished.  A movement *)
(* that failed may still have a step under way: the application lost sight *)
(* of it, and only an operator can say what it did.                        *)
(***************************************************************************)
EXTENDS Naturals

CONSTANTS MaxMotions, Steps

VARIABLES motion, outcome, ran, done

svars == <<motion, outcome, ran, done>>

Moves == (1..MaxMotions) \X (1..Steps)

SInit ==
  /\ motion = 0
  /\ outcome = [m \in 1..MaxMotions |-> "none"]
  /\ ran = [x \in Moves |-> 0]
  /\ done = {}

\* A movement is commanded when the one before it is decided.
Command ==
  /\ motion < MaxMotions
  /\ motion > 0 => outcome[motion] \in {"succeeded", "reconciled"}
  /\ motion' = motion + 1
  /\ outcome' = [outcome EXCEPT ![motion + 1] = "open"]
  /\ UNCHANGED <<ran, done>>

Begun(x) ==
  /\ x[1] <= motion
  /\ ran[x] = 0
  /\ x[2] > 1 => <<x[1], x[2] - 1>> \in done

Begin(x) ==
  /\ Begun(x)
  /\ ran' = [ran EXCEPT ![x] = 1]
  /\ UNCHANGED <<motion, outcome, done>>

Finish(x) ==
  /\ ran[x] = 1
  /\ done' = done \cup {x}
  /\ UNCHANGED <<motion, outcome, ran>>

\* One program that begins and finishes, or begins and fails, the step.
RunWhole(x) ==
  /\ Begun(x)
  /\ ran' = [ran EXCEPT ![x] = 1]
  /\ done' \in {done, done \cup {x}}
  /\ outcome' \in {outcome, [outcome EXCEPT ![motion] = "faulted"],
                   [outcome EXCEPT ![motion] = "succeeded"]}
  /\ outcome'[motion] = "succeeded" =>
       outcome[motion] = "open" /\ \A i \in 1..Steps : <<motion, i>> \in done'
  /\ UNCHANGED motion

Decide(verdict) ==
  /\ motion > 0
  /\ CASE verdict = "succeeded" ->
            /\ outcome[motion] \in {"open", "interrupted"}
            /\ \A i \in 1..Steps : <<motion, i>> \in done
       [] verdict = "reconciled" -> outcome[motion] \in {"faulted", "interrupted"}
       [] OTHER -> outcome[motion] = "open"
  /\ outcome' = [outcome EXCEPT ![motion] = verdict]
  /\ UNCHANGED <<motion, ran, done>>

SNext ==
  \/ Command
  \/ \E x \in Moves : Begin(x) \/ Finish(x) \/ RunWhole(x)
  \/ \E v \in {"succeeded", "faulted", "interrupted", "reconciled"} : Decide(v)

SSpec == SInit /\ [][SNext]_svars
=============================================================================
