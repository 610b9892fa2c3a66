----------------------- MODULE MCListenerConversation -----------------------
(* One conversation with up to two clients, a few messages and a few turns. *)
EXTENDS ListenerConversation, TLC

CONSTANTS l1, l2, l3, c1, c2, s1, conv

MCTwoLeases == {l1, l2}
MCLeases == {l1, l2, l3}
MCOneConn == {c1}
MCTwoConns == {c1, c2}
MCNone == {}
MCOneSync == {s1}
MCScopes == {conv}

\* A task of the chain that nothing holds up is a microtask: it runs before the
\* next input is read.  The counterexamples are sought among such behaviours.
TasksFirst ==
  chain # <<>> /\ chainTurn = NoLease => DispatchRuns \/ PumpStops \/ PumpTakes

=============================================================================
