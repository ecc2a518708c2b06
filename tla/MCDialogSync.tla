---------------------------- MODULE MCDialogSync ----------------------------
\* DialogSync on small instances.
EXTENDS DialogSync

\* One message, nothing moves elsewhere, nothing fails.
MCBudgets == {[messages |-> 1, moves |-> 0, failures |-> 0]}
=============================================================================
