------------------------------ MODULE Inquiries ------------------------------
(***************************************************************************)
(* What a confirmation scheduler promises to a page that asks remote peers *)
(* whether they still have a file: one inquiry at a time for each file, an *)
(* answer is told only to the inquiry that asked for it, what is forgotten *)
(* is not answered, and what is wanted again while a forgotten inquiry is  *)
(* still out is asked again once that is back.                             *)
(*                                                                         *)
(*   none      nothing is wanted                                           *)
(*   waiting   wanted, and not asked yet                                   *)
(*   asked     the peers were asked                                        *)
(*   told      the page was told the answer                                *)
(*   dropped   asked or told, and forgotten since                          *)
(*   again     dropped, and wanted once more                               *)
(***************************************************************************)
CONSTANT Roots

VARIABLE inquiry

InquiryStages == {"none", "waiting", "asked", "told", "dropped", "again"}

InquiryInit == inquiry = [r \in Roots |-> "none"]

\* Wanting what is already waiting or out changes nothing.
Wanted(stage) ==
    CASE stage = "none" -> "waiting" [] stage = "dropped" -> "again" [] OTHER -> stage

Forgotten(stage) ==
    CASE stage = "waiting" -> "none"
      [] stage \in {"asked", "told", "again"} -> "dropped"
      [] OTHER -> stage

\* What is forgotten and what is wanted from now on.
Revise(forgotten, wanted) ==
    inquiry' = [r \in Roots |-> IF r \in forgotten THEN Forgotten(inquiry[r])
                                ELSE IF r \in wanted THEN Wanted(inquiry[r])
                                ELSE inquiry[r]]

Ask(roots) ==
    /\ \A r \in roots : inquiry[r] = "waiting"
    /\ inquiry' = [r \in Roots |-> IF r \in roots THEN "asked" ELSE inquiry[r]]

Tell(r) == inquiry[r] = "asked" /\ inquiry' = [inquiry EXCEPT ![r] = "told"]

\* It is over, or asked again when there was no answer or none of use.
Finish(r, retry) ==
    LET next == CASE inquiry[r] = "told" -> IF retry THEN "waiting" ELSE "none"
                  [] inquiry[r] = "dropped" -> "none"
                  [] inquiry[r] \in {"asked", "again"} -> "waiting"
    IN
    /\ inquiry[r] \in {"asked", "told", "dropped", "again"}
    /\ inquiry' = [inquiry EXCEPT ![r] = next]

ForgetAll == inquiry' = [r \in Roots |-> "none"]

InquiryNext ==
    \/ \E roots \in SUBSET Roots : Revise({}, roots) \/ Ask(roots)
    \/ \E r \in Roots : Revise({r}, {}) \/ Tell(r) \/ \E retry \in BOOLEAN : Finish(r, retry)
    \/ ForgetAll

InquirySpec == InquiryInit /\ [][InquiryNext]_inquiry
=============================================================================
