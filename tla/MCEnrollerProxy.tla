--------------------------- MODULE MCEnrollerProxy ---------------------------
(***************************************************************************)
(* EnrollerProxy on a small instance: all three operations.                *)
(***************************************************************************)
EXTENDS EnrollerProxy

AllOps == {"GetCSRs", "GetCSRStatus", "GetCRT"}

=============================================================================
