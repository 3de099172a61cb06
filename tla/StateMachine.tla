----------------------------- MODULE StateMachine -----------------------------
(***************************************************************************)
(* The run-to-completion engine of Utility/StateMachine.h, shared by the   *)
(* three interaction modes.  A state is a handler; one step of the model   *)
(* is one call of a handler with one input.  A handler may ask for another *)
(* state: the engine then calls the present one with SM_EXIT and the new   *)
(* one with SM_ENTER, which may ask again, until a handler asks for        *)
(* nothing.  The owner runs the engine from processFrame, once or several  *)
(* times per frame, and shuts it down from its destructor.                 *)
(***************************************************************************)

VARIABLES
  current,    \* m_current_state, or NoState before Initialize and after Shutdown
  next,       \* m_next_state, or NoState
  input,      \* the input of the handler call being made, or "none"
  frameStep   \* where the owner is in processFrameInternal

machineVars == <<current, next, input, frameStep>>

NoState == "NULL"

(* A type for the variables, given the states and the user inputs.         *)
MachineTypeOK(State, UserInput, Step) ==
  /\ current \in State \cup {NoState}
  /\ next \in State \cup {NoState}
  /\ input \in {"none", "enter", "exit"} \cup UserInput
  /\ frameStep \in Step

MachineInit ==
  /\ current = NoState
  /\ next = NoState
  /\ input = "none"
  /\ frameStep = "between"

Quiet == input = "none"

(* The handler of state s is being called with one of the given inputs.    *)
At(s, inputs) == current = s /\ input \in inputs

(* The owner calls Initialize(s): the state is set and runs SM_ENTER.      *)
Initialize(s) ==
  /\ current' = s
  /\ input' = "enter"
  /\ UNCHANGED next

(* The owner calls RunCurrentState(i).                                     *)
RunCurrentState(i) == input' = i /\ UNCHANGED <<current, next>>

(* A handler returns without asking for a transition.                      *)
Stay == input' = "none" /\ UNCHANGED <<current, next, frameStep>>

(* Slip: the exit of the state that is left is forgotten.                  *)
MutTransitionTo(s) ==
  /\ current' = s
  /\ input' = "enter"
  /\ UNCHANGED <<next, frameStep>>

(* A handler calls SetNextState(s) and returns: its own exit comes next.   *)
TransitionTo(s) ==
  /\ next' = s
  /\ input' = "exit"
  /\ UNCHANGED <<current, frameStep>>

(* A handler returns from SM_EXIT: the saved next state becomes the        *)
(* current one and is entered; after Shutdown there is none.               *)
Exited ==
  /\ current' = next
  /\ next' = NoState
  /\ input' = IF next = NoState THEN "none" ELSE "enter"
  /\ UNCHANGED frameStep

(* The destructor of the owner shuts the engine down between two frames;   *)
(* an engine that never ran has nothing to exit.                           *)
Shutdown ==
  /\ frameStep = "between"
  /\ frameStep' = "shutdown"
  /\ input' = IF current = NoState THEN "none" ELSE "exit"
  /\ UNCHANGED <<current, next>>
===============================================================================
