--------------------------- MODULE MCTerminalInput ---------------------------
(***************************************************************************)
(* TLC instances of TerminalInput.                                         *)
(***************************************************************************)
EXTENDS TerminalInput

\* The buffer a read returned is not looked at again, and the next read writes its
\* locals before it uses them.
InputView ==
  <<kb, kb_buf_i, terminal_buf_n_bytes, scheduled_terminal, visible_terminal,
    [t \in Terminals |-> IF reader[t].at \in {"user", "allow"}
                         THEN <<reader[t].at, reader[t].n>> ELSE <<reader[t]>>]>>

=============================================================================
