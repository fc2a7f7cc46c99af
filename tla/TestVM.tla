------------------------------- MODULE TestVM -------------------------------
(***************************************************************************)
(* The host program testvm: run_bin calls avrvm_exec in a loop and leaves  *)
(* it at a break or at an instruction that cannot be decoded.  Anything    *)
(* else, a host call, a sleep or a watchdog reset, it does not act on, and *)
(* the next call of avrvm_exec goes on after that instruction.             *)
(***************************************************************************)
EXTENDS AvrVM

CONSTANT MaxSteps   \* how many instructions of a script are observed

ASSUME MaxStepsAssumption == MaxSteps \in Nat

VARIABLES
  status,   \* where run_bin is: in its loop, or out of it and how
  steps     \* the instructions executed so far

hostvars == << flash, ctx, rc, status, steps >>

Statuses == {"running", "exited", "bad instruction"}

HostInit == /\ Init
            /\ status = "running"
            /\ steps = 0

(* One turn of the loop.                                                   *)
run_bin == /\ status = "running"
           /\ steps < MaxSteps
           /\ avrvm_exec
           /\ status' = CASE rc' = AVRVM_RC_UNDEF_INSTR -> "bad instruction"
                          [] rc' = AVRVM_RC_BREAK       -> "exited"
                          [] OTHER                      -> "running"
           /\ steps' = steps + 1

(* The process has ended, or the observation has.                          *)
Over == /\ status # "running" \/ steps = MaxSteps
        /\ UNCHANGED hostvars

HostNext == run_bin \/ Over

HostSpec == HostInit /\ [][HostNext]_hostvars

(* The loop never waits for anything, so it keeps executing instructions.  *)
FairHostSpec == HostSpec /\ WF_hostvars(run_bin)

HostTypeOK == /\ TypeOK
              /\ status \in Statuses
              /\ steps \in 0 .. MaxSteps

=============================================================================
