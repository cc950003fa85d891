--------------------------- MODULE WriteContract ---------------------------
(***************************************************************************)
(* What a caller of Client::execute may rely on for one write, without     *)
(* attempts, deadlines, redirects or a network: the server applies it at   *)
(* most once unless the call was declared safe to replay; success is only  *)
(* reported for a write that was applied; and any other report says        *)
(* nothing, for the server may have applied the write, or apply it yet.    *)
(***************************************************************************)
EXTENDS Integers

VARIABLES
  replayable,   \* the write may be applied more than once
  applied,      \* how many times the server applied it
  report        \* what the caller was told

vars == <<replayable, applied, report>>

Init ==
  /\ replayable \in BOOLEAN
  /\ applied = 0
  /\ report = "pending"

Apply ==
  /\ applied = 0 \/ replayable
  /\ applied' = applied + 1
  /\ UNCHANGED <<replayable, report>>

Report ==
  /\ report = "pending"
  /\ \/ report' = "success" /\ applied > 0
     \/ report' = "unknown"
  /\ UNCHANGED <<replayable, applied>>

Next == Apply \/ Report

\* The caller is answered in the end; the server need not apply anything.
Spec == Init /\ [][Next]_vars /\ WF_vars(Report)

\* The safety half, for executions whose clock need not advance.
SafeSpec == Init /\ [][Next]_vars

=============================================================================
