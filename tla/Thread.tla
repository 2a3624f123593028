------------------------------- MODULE Thread ------------------------------
(***************************************************************************)
(* A thread that computes: it calls one operation at a time, the operation *)
(* returns at once or runs a loop a step at a time, and the thread takes   *)
(* the result.  The modules that extend this one give the operations, each *)
(* an action, and the calls that the code makes of them.                   *)
(***************************************************************************)
EXTENDS Integers, Sequences

VARIABLES call,    \* the operation, and the operands it was called with
          result,  \* what it returned, or nothing yet
          loop     \* the registers of a loop that is running

threadVars == <<call, result, loop>>

NoCall == [op |-> "none"]
NoResult == << >>
NoLoop == << >>

ThreadInit == call = NoCall /\ result = NoResult /\ loop = NoLoop

Pending(op) == call.op = op /\ result = NoResult /\ loop = NoLoop
Running(op) == call.op = op /\ loop # NoLoop
Is(op) == call.op = op /\ result # NoResult
Res == result[1]

CallOne(calls) == call = NoCall /\ call' \in calls /\ UNCHANGED <<result, loop>>
Return(r) == result' = <<r>> /\ loop' = NoLoop /\ UNCHANGED call
GoOn(registers) == loop' = registers /\ UNCHANGED <<call, result>>

\* The caller takes the result.
Take == result # NoResult /\ call' = NoCall /\ result' = NoResult /\ UNCHANGED loop

=============================================================================
