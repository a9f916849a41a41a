---------------------------- MODULE MCBinaryTree ----------------------------
EXTENDS BinaryTree

\* Four keys reach every branch of the descent: the empty tree, a chain, and
\* a root with children on both sides and a grandchild.
MCKeys == 1..4

=============================================================================
