------------------------- MODULE MCDynamicCommands -------------------------
(* Small instances of the dynamic commands.                                *)
EXTENDS DynamicCommands, TLC

CONSTANTS ping, api, web, other, h1, h2

\* A plugin's command, two fit names, and one that no command can have.
MCNames == {ping, api, web, other}

MCFit == {ping, api, web}

MCHandlers == {h1, h2}

\* Fit names are interchangeable, and so are handlers.
MCSymmetry == Permutations({api, web}) \union Permutations(MCHandlers)
=============================================================================
