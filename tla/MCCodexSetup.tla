---------------------------- MODULE MCCodexSetup ----------------------------
(***************************************************************************)
(* Three managed files. "mine" is content of the user's own that passes    *)
(* the validator, "odd" does not, "managed" is what setup writes.          *)
(***************************************************************************)
EXTENDS CodexSetup

MCOrder == <<"config.toml", "models.json", "agent.toml">>
MCContents == {"mine", "odd", "managed"}
MCRender == [f \in ToSet(MCOrder) |-> [c \in MCContents \cup {Nothing} |-> "managed"]]
MCAccepts == [f \in ToSet(MCOrder) |-> {"mine", "managed"}]
=============================================================================
