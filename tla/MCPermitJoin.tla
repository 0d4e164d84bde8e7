----------------------------- MODULE MCPermitJoin -----------------------------
EXTENDS PermitJoin

\* Two windows of different lengths: one may outlast the other either way.
MCDurations == {1, 3}
===============================================================================
