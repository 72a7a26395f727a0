------------------------------- MODULE BuyerForms -------------------------------
(***************************************************************************)
(* What a buyer fills in: the registration form, in a dialog of the        *)
(* storefront, or the cart.  They keep their state to themselves, the one  *)
(* in sessionStorage and the other in localStorage, so that a behaviour is *)
(* one of the form that is open.                                           *)
(***************************************************************************)
EXTENDS Registration, Cart

VARIABLE form       \* "registration" or "cart"

formVars == <<regVars, cartVars, form>>

FormsInit ==
  \/ form = "registration" /\ RegInit /\ CartClosed
  \/ form = "cart" /\ RegClosed /\ CartInit

FormsNext ==
  /\ UNCHANGED form
  /\ \/ form = "registration" /\ RegNext /\ UNCHANGED cartVars
     \/ form = "cart" /\ CartNext /\ UNCHANGED regVars

FormsSpec == FormsInit /\ [][FormsNext]_formVars
=============================================================================
