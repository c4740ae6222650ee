---------------------------------- MODULE VM ---------------------------------
(***************************************************************************)
(* The VM instance of vm.hpp and vm.cpp: which interpreter it executes     *)
(* with, and its list of tracers.                                          *)
(***************************************************************************)
EXTENDS Tracing

CONSTANT MaxTracers   \* bound: the number of tracers added

ASSUME MaxTracersAssumption == MaxTracers \in Nat

VARIABLES execute,       \* the pointer c_vm->execute: an interpreter
          tracers,       \* the list from m_first_tracer on
          option_result  \* what set_option has returned last

vmVars == <<execute, tracers, option_result>>

\* VM::VM: the Advanced interpreter is the default.
InitVM == execute = "advanced" /\ tracers = << >> /\ option_result = "none"

add_tracer(t) == tracers' = Append(tracers, t)

HasTracer == tracers # << >>

\* tracing says that an execution with tracers is under way.
set_option(name, value, tracing) ==
    \/ /\ name = "O" /\ value \in {"0", "2"}
       /\ execute' = IF value = "0" THEN "baseline" ELSE "advanced"
       /\ option_result' = "SUCCESS"
       /\ UNCHANGED tracers
    \/ /\ name = "O" /\ value \notin {"0", "2"}
       /\ option_result' = "INVALID_VALUE"
       /\ UNCHANGED <<execute, tracers>>
    \/ /\ name \in {"trace", "histogram"}
       /\ Len(tracers) < MaxTracers
       /\ add_tracer(Tracer(name, tracing))
       /\ option_result' = "SUCCESS"
       /\ UNCHANGED execute
    \/ /\ name \notin {"O", "trace", "histogram"}
       /\ option_result' = "INVALID_NAME"
       /\ UNCHANGED <<execute, tracers>>

=============================================================================
