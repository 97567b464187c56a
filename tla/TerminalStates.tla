--------------------------- MODULE TerminalStates --------------------------
(***************************************************************************)
(* The states of a terminal session and the table of its transitions       *)
(* (app/payments/terminal_state_machine.py).                               *)
(***************************************************************************)
EXTENDS Sequences, Naturals

TerminalState ==
  { "CREATED", "AMOUNT_ENTERED", "PROTOCOL_SELECTED", "CARD_PRESENTED",
    "CARD_DATA_READ", "AUTHORIZING", "APPROVED", "DECLINED", "CAPTURED",
    "COMPLETED", "VOIDED", "REFUNDED", "CANCELLED", "FAILED" }

\* A table that lets a completed sale be voided at its processor.
AllowedTerminalTransitionsVoidLate ==
  [ s \in TerminalState |->
      CASE s = "PROTOCOL_SELECTED" -> { "CARD_PRESENTED", "CANCELLED" }
        [] s = "CREATED"           -> { "AMOUNT_ENTERED", "CANCELLED" }
        [] s = "AMOUNT_ENTERED"    -> { "PROTOCOL_SELECTED", "CANCELLED" }
        [] s = "CARD_PRESENTED"    -> { "AUTHORIZING" }
        [] s = "AUTHORIZING"       -> { "APPROVED", "DECLINED", "FAILED",
                                        "CANCELLED" }
        [] s = "APPROVED"          -> { "CAPTURED", "COMPLETED", "VOIDED",
                                        "CANCELLED" }
        [] s \in { "CAPTURED", "COMPLETED" } ->
             { "COMPLETED", "REFUNDED", "VOIDED" }
        [] OTHER                   -> {} ]

AllowedTerminalTransitions ==
  [ s \in TerminalState |->
      CASE s = "CREATED"           -> { "AMOUNT_ENTERED", "CANCELLED" }
        [] s = "AMOUNT_ENTERED"    -> { "PROTOCOL_SELECTED", "CANCELLED" }
        [] s = "PROTOCOL_SELECTED" -> { "CARD_PRESENTED", "CANCELLED" }
        [] s = "CARD_PRESENTED"    -> { "CARD_DATA_READ", "AUTHORIZING",
                                        "CANCELLED", "FAILED" }
        [] s = "CARD_DATA_READ"    -> { "AUTHORIZING", "CANCELLED", "FAILED" }
        [] s = "AUTHORIZING"       -> { "APPROVED", "DECLINED", "FAILED",
                                        "CANCELLED" }
        [] s = "APPROVED"          -> { "CAPTURED", "COMPLETED", "VOIDED",
                                        "CANCELLED" }
        [] s = "CAPTURED"          -> { "COMPLETED", "REFUNDED", "VOIDED" }
        [] s = "COMPLETED"         -> { "REFUNDED" }
        [] OTHER                   -> {} ]

CanTransition(from, to) == to \in AllowedTerminalTransitions[from]

\* transition() applied along a path: none of its steps raises.
AllowedPath(path) ==
  \A i \in 1 .. Len(path) - 1 : CanTransition(path[i], path[i + 1])

-----------------------------------------------------------------------------

\* No transition leaves the set.
Closed(states) ==
  \A s \in states : AllowedTerminalTransitions[s] \subseteq states

\* What a state leads to, itself included: what is in every closed set that
\* holds it.
Reachable ==
  LET closed == { states \in SUBSET TerminalState : Closed(states) }
  IN  [ s \in TerminalState |->
          { t \in TerminalState : \A states \in closed :
                                   s \in states => t \in states } ]

=============================================================================
