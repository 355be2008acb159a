--------------------------- MODULE MCPanelConsole ---------------------------
(* A panel of a few columns, with words that fit them.                       *)
EXTENDS PanelConsole

MCWords == << {<<"x", "x">>}, {}, {}, {<<"x", "y">>}, {<<"y", "y", "x">>} >>
MCPanics == {<<"y", "y", "y">>}
=============================================================================
