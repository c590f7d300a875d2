--------------------------------- MODULE Repl ---------------------------------
(***************************************************************************)
(* The read-eval-print loop: class Repl and the command loop of            *)
(* run_repl_mode.  Every line is a unit of its own, numbered by step_.     *)
(* `:clear` resets the SessionManager only: the checker's scope and error  *)
(* flag, the fragments and the JIT stay.                                   *)
(***************************************************************************)
EXTENDS Orchestrator

VARIABLE step   \* step_

replVars == <<vars, step>>

ReplInit == Init /\ step = 0

\* Mutant: the step is counted only once.
StepOnce == 1

NextStep == step + 1

\* execute_line up to the orchestrator.
Line(u) ==
  /\ NextStep \in Fragment
  /\ step' = NextStep
  /\ Submit(NextStep, u)

ExecuteLine == Step /\ UNCHANGED step

PrintResult(r) == TakeResult(r) /\ UNCHANGED step

Clear ==
  /\ phase = "idle"
  /\ Session!Reset
  /\ UNCHANGED <<irVars, checkerVars, jitVars, callVars, step>>

ReplNext ==
  \/ \E u \in Units : Line(u)
  \/ ExecuteLine
  \/ \E r \in {"ok", "failed"} : PrintResult(r)
  \/ Clear

ReplSpec == ReplInit /\ [][ReplNext]_replVars

------------------------------------------------------------------------------

\* A line never takes away the code of an earlier line, whether it redefines
\* its symbols, fails in any phase, or follows a `:clear`: later lines may call
\* what earlier lines loaded.
EarlierCodeStaysLoaded ==
  [][/\ loaded \subseteq loaded'
     /\ \A f \in Fragment : Ir!IsActive(f) => fragments'[f].active]_replVars
==============================================================================
