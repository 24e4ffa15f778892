----------------------------- MODULE MCGameStore -----------------------------
(* GameStore on small instances.  The colours are interchangeable. *)
EXTENDS GameStore, TLC

Symmetry == Permutations(Colors)

(* What later steps and the properties can tell of the last reply: all of  *)
(* it when it is a feedback (ResendIdempotent), the revealed key and game  *)
(* when it has one (KeyRevealedOnlyWhenOver), else nothing.                *)
SeenReply ==
  CASE reply.op = "TRY" /\ reply.status = "OK" -> <<reply>>
    [] reply.key # NoKey ->
         <<reply.op, reply.status, reply.plid, reply.key, reply.shown>>
    [] OTHER -> <<>>

View == <<now, store, strReq, SeenReply>>
=============================================================================
