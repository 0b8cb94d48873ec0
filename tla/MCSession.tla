------------------------------ MODULE MCSession ------------------------------
\* A small primary session for TLC.
EXTENDS OmegonSession

AllCaps == {"state.snapshot", "events.stream", "prompt.submit", "turn.cancel"}

\* One that has everything, an old one that does not number its state and
\* cannot cancel, one without prompts, and one that cannot be attached to at all.
AllBuilds ==
    {[caps |-> AllCaps, counts |-> TRUE],
     [caps |-> AllCaps \ {"turn.cancel"}, counts |-> FALSE],
     [caps |-> AllCaps \ {"prompt.submit"}, counts |-> TRUE],
     [caps |-> AllCaps \ {"events.stream"}, counts |-> TRUE]}
=============================================================================
