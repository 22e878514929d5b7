---------------------------- MODULE MCAgentPort ----------------------------
(* Instances of AgentPort for TLC: a window of a few tokens, a device of one    *)
(* buffer.                                                                    *)
EXTENDS AgentPort

Use(new, split, data, said, mouse, plugs, conns, stops) ==
    [caps |-> new, notify |-> new, split |-> split, data |-> data, agent |-> said,
     mouse |-> mouse, plugs |-> plugs, conns |-> conns, stops |-> stops]

(* A client and a device of old, whose device state outlives the agent; and   *)
(* new ones, whose state is made anew, with messages in pieces: more of the    *)
(* client's, or more of the agent's.                                          *)
OldAndNew == {Use(FALSE, FALSE, 3, 1, 2, 2, 1, 1), Use(TRUE, TRUE, 2, 1, 1, 2, 2, 0),
              Use(TRUE, TRUE, 1, 2, 0, 2, 2, 0)}

Talk == {Use(FALSE, FALSE, 2, 2, 0, 1, 1, 1)}

Reconnect == {Use(FALSE, TRUE, 3, 0, 0, 1, 2, 0)}
=============================================================================
