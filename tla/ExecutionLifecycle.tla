------------------------- MODULE ExecutionLifecycle -------------------------
(***************************************************************************)
(* What the Judge promises about ONE execution, whatever its workers, its  *)
(* callers and its clock do: the lifecycle of docs/architecture.md, read   *)
(* off the statuses the store writes.                                      *)
(*                                                                         *)
(*   absent -> queued -> running -> completed | failed | canceled          *)
(*                ^---------'   (lease expired)                            *)
(*                                                                         *)
(* A settled execution never changes again; once cancellation is requested *)
(* the only outcome left is "canceled" without a score; and an execution   *)
(* that asked for a callback owes one from the very step that settles it.  *)
(***************************************************************************)

CONSTANTS Workers,        \* identities that may own a run
          Scores,         \* published results
          NULL            \* "no value"

VARIABLES status,         \* where the execution is in its lifecycle
          cancelRequested,\* a caller asked to cancel it
          owner,          \* the worker that runs it, or NULL
          score,          \* its published result, or NULL
          wantsCallback,  \* the request carried a callback URL
          notice          \* the callback: "none", "owed" or "delivered"

lifecycleVars == <<status, cancelRequested, owner, score, wantsCallback, notice>>

Settled == {"completed", "failed", "canceled"}

Init ==
    /\ status = "absent"
    /\ cancelRequested = FALSE
    /\ owner = NULL
    /\ score = NULL
    /\ wantsCallback = FALSE
    /\ notice = "none"

\* Settling an execution and owing its callback are one step.
Settle ==
    /\ owner' = NULL
    /\ notice' = IF wantsCallback THEN "owed" ELSE "none"
    /\ UNCHANGED wantsCallback

Submit ==
    /\ status = "absent"
    /\ status' = "queued"
    /\ wantsCallback' \in BOOLEAN
    /\ UNCHANGED <<cancelRequested, owner, score, notice>>

\* A run starts, or moves to another worker once its lease has run out.
Start ==
    /\ status \in {"queued", "running"}
    /\ ~cancelRequested
    /\ status' = "running"
    /\ owner' \in Workers
    /\ UNCHANGED <<cancelRequested, score, wantsCallback, notice>>

Release ==
    /\ status = "running"
    /\ ~cancelRequested
    /\ status' = "queued"
    /\ owner' = NULL
    /\ UNCHANGED <<cancelRequested, score, wantsCallback, notice>>

\* The owner reports a result nobody asked to cancel.
Publish ==
    /\ status = "running"
    /\ ~cancelRequested
    /\ status' \in Settled
    /\ score' \in Scores \cup {NULL}
    /\ Settle
    /\ UNCHANGED cancelRequested

\* A requested cancellation takes effect, whatever the owner reports.
Abort ==
    /\ \/ status = "queued" /\ ~cancelRequested
       \/ status = "running" /\ cancelRequested
    /\ status' = "canceled"
    /\ score' = NULL
    /\ cancelRequested' = TRUE
    /\ Settle

RequestCancel ==
    /\ status \in Settled \cup {"running"}
    /\ cancelRequested' = TRUE
    /\ UNCHANGED <<status, owner, score, wantsCallback, notice>>

Deliver ==
    /\ notice = "owed"
    /\ notice' = "delivered"
    /\ UNCHANGED <<status, cancelRequested, owner, score, wantsCallback>>

Replay ==
    /\ notice = "delivered"
    /\ notice' = "owed"
    /\ UNCHANGED <<status, cancelRequested, owner, score, wantsCallback>>

Next ==
    \/ Submit \/ Start \/ Release \/ Publish \/ Abort
    \/ RequestCancel \/ Deliver \/ Replay

Spec == Init /\ [][Next]_lifecycleVars
=============================================================================
