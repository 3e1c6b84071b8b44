-------------------------------- MODULE WriteLog --------------------------------
(***************************************************************************)
(* What the database write queue promises its callers: accepted writes are *)
(* executed one at a time, in the order of acceptance, none is lost or     *)
(* repeated, none is accepted after the queue was closed, and the caller   *)
(* that closed it goes on only when every accepted write has been executed.*)
(***************************************************************************)
EXTENDS Sequences

CONSTANT Tasks

VARIABLES
  backlog,  (* accepted, not yet executed; the head may be running         *)
  log,      (* executed, in order                                          *)
  open,     (* the queue accepts writes                                    *)
  drained   (* the caller that closed the queue has gone on                *)

logVars == << backlog, log, open, drained >>

Init ==
  /\ backlog = << >>
  /\ log = << >>
  /\ open = TRUE
  /\ drained = FALSE

Accept(t) ==
  /\ open
  /\ backlog' = Append(backlog, t)
  /\ UNCHANGED << log, open, drained >>

Finish ==
  /\ backlog # << >>
  /\ log' = Append(log, Head(backlog))
  /\ backlog' = Tail(backlog)
  /\ UNCHANGED << open, drained >>

Close ==
  /\ open
  /\ open' = FALSE
  /\ UNCHANGED << backlog, log, drained >>

Drain ==
  /\ ~open /\ backlog = << >>
  /\ drained' = TRUE
  /\ UNCHANGED << backlog, log, open >>

Next ==
  \/ \E t \in Tasks : Accept(t)
  \/ Finish
  \/ Close
  \/ Drain

Safety == Init /\ [][Next]_logVars

\* The worker keeps executing, and the closing caller is let go.
Spec == Safety /\ WF_logVars(Finish) /\ WF_logVars(Drain)
===============================================================================
