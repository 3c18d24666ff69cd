----------------------------- MODULE MCRecordSync -----------------------------
(***************************************************************************)
(* Instances of RecordSync: the address is changed by the department and   *)
(* by an event of SWS, the license expiry, which is kept in rawPayload, by *)
(* an event only, and the worker limit, which has no service type, by the  *)
(* department only.                                                        *)
(***************************************************************************)
EXTENDS RecordSync, TLC

CONSTANTS address, expiry, workers, old, new, other,
          moved, limited, movedInSws, renewed, hourly, requested

MCInitial == [f \in Fields |-> old]

MCFieldOf ==
    [c \in Changes |-> CASE c \in {moved, movedInSws} -> address
                         [] c = renewed               -> expiry
                         [] OTHER                     -> workers]

MCValueOf == [c \in Changes |-> IF c = moved THEN other ELSE new]

PollSymmetry == Permutations(Polls)
=============================================================================
