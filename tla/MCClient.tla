------------------------------ MODULE MCClient ------------------------------
EXTENDS Client

\* Where changes wait for the client, four fit: the primary dies, the backup
\* is promoted (two changes) and a new one registers.  Where they do not, two
\* are a node deleted and created again before the watcher looks.
MCMaxChanges ==
    [w \in Worlds |-> CASE w = "orderly" -> 4 [] w = "settled" -> 3 [] OTHER -> 2]

=============================================================================
