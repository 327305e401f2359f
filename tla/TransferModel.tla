--------------------------- MODULE TransferModel ---------------------------
(***************************************************************************)
(* The lifecycle of one transfer record: the states of model.rs, the       *)
(* transitions transition_to accepts, and the writers of core.rs that set  *)
(* a state directly without asking can_transition_to.  Both sides of a     *)
(* transfer, and every module below, use these operators.                  *)
(***************************************************************************)

TransferState ==
    {"Preparing", "Connecting", "Pairing", "WaitingForAcceptance",
     "Transferring", "Paused", "Interrupted", "Verifying",
     "Completed", "Failed", "Cancelled"}

(* is_terminal: no writer of core.rs leaves these two. *)
Terminal == {"Completed", "Cancelled"}

(* is_active: what clear_history keeps in memory. *)
Active == TransferState \ {"Completed", "Failed", "Cancelled"}

(* can_transition_to. *)
CanTransition(state, next) ==
    \/ state \notin Terminal /\ next = "Cancelled"
    \/ state = "Preparing"  /\ next \in {"Connecting", "Transferring", "Failed"}
    \/ state = "Connecting" /\ next \in {"Pairing", "WaitingForAcceptance",
                                         "Transferring", "Interrupted", "Failed"}
    \/ state = "Pairing"    /\ next \in {"WaitingForAcceptance", "Failed"}
    \/ state = "WaitingForAcceptance"
                            /\ next \in {"Transferring", "Interrupted", "Failed"}
    \/ state = "Transferring"
                            /\ next \in {"Paused", "Interrupted", "Verifying", "Failed"}
    \/ state = "Paused"     /\ next \in {"Transferring", "Interrupted", "Failed"}
    \/ state \in {"Interrupted", "Failed"} /\ next = "Preparing"
    \/ state = "Verifying"  /\ next \in {"Completed", "Failed"}

TransferCommand == {"Pause", "Resume", "Cancel", "Retry"}

(* Mutant: a pause recorded as an interruption. *)
PauseInterrupts ==
    [c \in TransferCommand |->
        CASE c = "Pause"  -> "Interrupted"
          [] c = "Resume" -> "Transferring"
          [] c = "Cancel" -> "Cancelled"
          [] c = "Retry"  -> "Preparing"]

(* apply_command: the state each command of the user asks for. *)
CommandTarget ==
    [c \in TransferCommand |->
        CASE c = "Pause"  -> "Paused"
          [] c = "Resume" -> "Transferring"
          [] c = "Cancel" -> "Cancelled"
          [] c = "Retry"  -> "Preparing"]

(* How a task ended, as far as the record can tell: LanError::is_cancelled *)
(* and LanError::is_retryable, everything else being fatal.                *)
Outcome == {"cancelled", "retryable", "fatal"}

(* Mutant: a late handler overwrites a terminal record. *)
OutcomeAlwaysWins(state, outcome) ==
    CASE outcome = "cancelled" -> "Cancelled"
      [] outcome = "retryable" -> "Interrupted"
      [] outcome = "fatal"     -> "Failed"

(* fail_transfer, interrupt_transfer and cancel_transfer_with_error: they  *)
(* bypass CanTransition and only respect the terminal states.              *)
AfterOutcome(state, outcome) ==
    IF state \in Terminal THEN state
    ELSE CASE outcome = "cancelled" -> "Cancelled"
           [] outcome = "retryable" -> "Interrupted"
           [] outcome = "fatal"     -> "Failed"

(* pause_from_remote pauses whatever is not terminal.                      *)
AfterRemotePause(state) == IF state \in Terminal THEN state ELSE "Paused"

(* resume_from_remote resumes a paused record only.                        *)
AfterRemoteResume(state) == IF state = "Paused" THEN "Transferring" ELSE state

(* Mutant: a remote cancellation recorded as a failure. *)
RemoteCancelFails(state) == IF state \in Terminal THEN state ELSE "Failed"

(* cancel_from_remote.                                                     *)
AfterRemoteCancel(state) == IF state \in Terminal THEN state ELSE "Cancelled"

(* Mutant: a paused transfer stays paused over a restart. *)
KeepsPaused(state) ==
    IF state \in {"Completed", "Cancelled", "Failed", "Paused"} THEN state ELSE "Interrupted"

(* initialize: whatever was still going when the process ended.            *)
Restored(state) ==
    IF state \in {"Completed", "Cancelled", "Failed"} THEN state ELSE "Interrupted"
=============================================================================
