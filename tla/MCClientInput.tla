---------------------------- MODULE MCClientInput ----------------------------
EXTENDS ClientInput

\* Keys typed at any time, or late: once a session attached.
Scene(keys, late, may, faults, limit, commits, swaps) ==
    [keys |-> keys, late |-> late, may |-> may, faults |-> faults, limit |-> limit, commits |-> commits,
     swaps |-> swaps, resumes |-> 1]

\* A lost stream under two keys; a cancel; an outage past its limit; a retried resume; every other end; a second
\* session; a swap; the end of the terminal.
MCScenes ==
    { Scene(<<"key", "key">>, TRUE, {"lost"}, 1, 2, 1, 0),
      Scene(<<"esc", "ctrlc">>, TRUE, {"lost"}, 1, 2, 1, 0),
      Scene(<<"esc", "key", "key">>, TRUE, {"lost"}, 1, 1, 1, 0),
      Scene(<<"key">>, TRUE, {"lost", "transport", "broker"}, 2, 1, 1, 0),
      Scene(<<"key">>, FALSE, {"ended", "exit", "refused", "timeout", "broker", "transport"}, 1, 1, 1, 0),
      Scene(<<"key">>, FALSE, {"ended"}, 1, 1, 2, 0),
      Scene(<<"key">>, TRUE, {"lost"}, 1, 1, 1, 1),
      Scene(<<"eof">>, FALSE, {"lost"}, 1, 1, 1, 0) }
==============================================================================
