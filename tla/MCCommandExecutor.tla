--------------------------- MODULE MCCommandExecutor ---------------------------
EXTENDS CommandExecutor
=============================================================================
