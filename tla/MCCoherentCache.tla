--------------------------- MODULE MCCoherentCache ---------------------------
(* CoherentCache on small instances.                                       *)
EXTENDS CoherentCache, TLC

CONSTANTS acc, slot, code, one

Set(k, v) == [key |-> k, val |-> v]

MCGenesis == [k \in DbKeys |-> NoValue]

\* An account written.
WaitBatches == { <<Set(acc, one)>> }

\* An account written; a contract deployed (Action_UPSERT_CODE).
CodeBatches == { <<Set(acc, one)>>, <<Set(acc, NoValue), Set(code, code)>> }

\* An account unwound and written again, with a storage slot, in one batch; an
\* account removed and a contract deployed.
ReadBatches == { <<Set(acc, NoValue), Set(acc, one), Set(slot, one)>>,
                 <<Set(acc, NoValue), Set(code, code)>> }

ReaderSymmetry == Permutations(Readers)
=============================================================================
