--------------------------- MODULE MCAdminSession ---------------------------
(***************************************************************************)
(* TLC instance of AdminSession: one tab in detail beside the other tabs   *)
(* of the browser, two users.                                              *)
(***************************************************************************)
EXTENDS AdminSession
=============================================================================
