---------------------------- MODULE MCPriceDrops ----------------------------
(* The price drops on their own, for the run that shows a drop overtaken.  *)
EXTENDS PriceDrops
=============================================================================
