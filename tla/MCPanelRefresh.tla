--------------------------- MODULE MCPanelRefresh ---------------------------
(* Three votes: one to draw, one during the draw, one during the redraw.    *)
EXTENDS PanelRefresh

PanelOnly == {"panel"}
BothSides == {"panel", "refresh"}
=============================================================================
