--------------------------- MODULE MCLivePipeline ---------------------------
(***************************************************************************)
(* Instances of the live pipeline.  The constants of each run bound one    *)
(* family of faults at a time; the README says which and why.              *)
(***************************************************************************)
EXTENDS LivePipeline, SequencesExt

(* recoverState(journal.read()) as a value.                                *)
RecoverState ==
  FoldLeft(LAMBDA state, entry :
             [book |-> ReplayOrder(state.book, entry),
              pos  |-> ReplayPosition(state.book, state.pos, entry)],
           [book |-> [id \in Ids |-> None], pos |-> Flat],
           journal)

(* journal.ts: replaying the journal gives the positions the engine holds, *)
(* once the engine has drained every event the journal records.            *)
RecoveryRebuildsPositions ==
  Quiet /\ crashes = 0 => RecoverState.pos = positions

(* No execution is lost between the stream and the book, and positions and *)
(* order fills are two accounts of the same trades.                        *)
NothingLost == NoFillLost /\ PositionMatchesBook
=============================================================================
