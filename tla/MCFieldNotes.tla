---------------------------- MODULE MCFieldNotes ----------------------------
(***************************************************************************)
(* A case of a typed note, a recording and an answer, a checklist of one    *)
(* item that only the recording covers, and two workers.                    *)
(***************************************************************************)
EXTENDS FieldNotes, TLC

CONSTANTS t1, a1, r1, x, e1, w1, w2

MCMessages == {t1, a1, r1}
MCAudio == {a1}
MCReplies == {r1}
MCCovers == [m \in MCMessages |-> IF m = a1 THEN {x} ELSE {}]
Symmetry == Permutations({w1, w2})
=============================================================================
