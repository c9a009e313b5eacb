--------------------------- MODULE MCHistoryFiles ---------------------------
(* HistoryFiles on small instances: the folder at the first start, and how  *)
(* often things happen.                                                     *)
EXTENDS HistoryFiles

Empty == {}

Budget(crash, fail, calls, read) ==
    [crash |-> crash, fail |-> fail, call |-> calls, read |-> read]

Calm == {Budget(0, 0, 1, 1)}
=============================================================================
