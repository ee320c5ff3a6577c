--------------------------- MODULE MCDriveFigures ---------------------------
EXTENDS DriveFigures

\* No estimate, one of zero, one that takes some polls, and one at which 100 times
\* the seconds outgrow the word.
MCTimes == {0, 12, 60, UintMax}

\* Any estimates for the methods; another one for media modified without
\* deallocation.
MCEstimates ==
  {[x \in Methods \X BOOLEAN |-> IF x[2] THEN 25 ELSE time[x[1]]] : time \in [Methods -> MCTimes]}

\* SANICAP: bits 0..2 are the methods, 31:30 is NODMMAS.
MCDrives == [sanicap : {{0, 2}, {0, 31}, {0, 2, 30}}, estimates : MCEstimates]

\* Generation 2, 5 and 6 at most; half the lanes or all; down, or at some speed.
MCLinks == {l \in [sls : {{0, 1}, 0..4, 0..5}, mlw : {4}, cls : {0, 2, 5, 6}, nlw : {2, 4}] : Consistent(l)}
=============================================================================
