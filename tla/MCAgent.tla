------------------------------ MODULE MCAgent ------------------------------
(***************************************************************************)
(* Agent with two of its nine lists: tables, which come through WExport,   *)
(* and menu_items, which are written to a .json file.                      *)
(***************************************************************************)
EXTENDS Agent

MCOrder == <<"tables", "menu_items">>
MCRequests == {<<"tables">>, <<"menu_items", "tables">>}
=============================================================================
