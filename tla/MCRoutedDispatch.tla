--------------------------- MODULE MCRoutedDispatch ---------------------------
(***************************************************************************)
(* RoutedDispatch on small instances.  One run needs three candidates to    *)
(* fall back twice, and a third command sees what two others left.          *)
(***************************************************************************)
EXTENDS RoutedDispatch
=============================================================================
