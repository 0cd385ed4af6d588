----------------------------- MODULE MCRestore -----------------------------
EXTENDS Restore, TLC

CONSTANTS i1, i2

\* The files of the source cluster's configuration: optional ones that it does not
\* have and has, and required ones before and after these.
Files ==
    <<[optional |-> TRUE, present |-> FALSE], [optional |-> FALSE, present |-> TRUE],
      [optional |-> FALSE, present |-> TRUE], [optional |-> TRUE, present |-> TRUE],
      [optional |-> FALSE, present |-> TRUE]>>
=============================================================================
