----------------------------- MODULE MCUpstream -----------------------------
(***************************************************************************)
(* Two instances in one: workers that share the user's row, with the       *)
(* storage failing, and requests that share the connections to upstream    *)
(* servers.  Only the one in focus takes steps.                            *)
(***************************************************************************)
EXTENDS RecordActions, TLC

CONSTANTS w1, w2, u1, u2, a, b

VARIABLES focus, config, blocks, u, conn, cache, run

upstream == <<config, blocks, u, conn, cache, run>>
allVars == <<focus, vars, upstream>>

(* A page without keywords, with one, with two, and with the same keyword  *)
(* twice: the page parser's std::unique runs before the keywords exist.    *)
MCTagLists == {<< >>, <<a>>, <<a, b>>, <<a, a>>}
MCContents == {<<u1>>, <<u2>>}

Requests == {"r1", "r2"}

Host(f) == [weight |-> 1, maxFails |-> f, failTimeout |-> 10, down |-> FALSE]

Plain == [servers |-> <<Host(1)>>, backup |-> << >>, keepalive |-> 0,
          next |-> {"error", "timeout"}, stale |-> {}, ssl |-> FALSE, resolve |-> FALSE,
          ignoreAbort |-> FALSE, requests |-> 1, local |-> FALSE,
          responses |-> {"partial", "invalid", "ok", "empty", "404", "500"}]

UpstreamConfigurations ==
    {[Plain EXCEPT !.keepalive = 1, !.requests = 2, !.ignoreAbort = TRUE, !.local = TRUE,
                   !.responses = {"ok", "404"}, !.next = {"error"}],
     [Plain EXCEPT !.servers = <<Host(1), Host(0)>>,
                   !.next = {"error", "timeout", "invalid_header", "404", "500"}],
     [Plain EXCEPT !.keepalive = 1, !.ssl = TRUE],
     [Plain EXCEPT !.backup = <<Host(1)>>, !.stale = {"error", "timeout", "500"}],
     [Plain EXCEPT !.resolve = TRUE]}

U == INSTANCE Upstream WITH Conns <- {1, 2}, Configurations <- UpstreamConfigurations,
                            MaxTries <- 4

InRecord == focus = "record" /\ UNCHANGED <<focus, upstream>>
InUpstream == focus = "upstream" /\ UNCHANGED <<focus, vars>>

BothInit == /\ focus \in {"record", "upstream"}
            /\ Init
            /\ U!Init
            /\ focus = "record" => config.resolve

BothNext == \/ InRecord /\ Next
            \/ InUpstream /\ U!Next

\* A handler runs to its end; the resolver answers or times out; a timer expires whatever
\* other events come before it.  Neither servers nor clients need do anything.
BothSpec == /\ BothInit /\ [][BothNext]_allVars
            /\ \A r \in Requests : /\ WF_allVars(InUpstream /\ U!Step(r))
                                   /\ SF_allVars(InUpstream /\ U!Timeout(r))
                                   /\ WF_allVars(InUpstream /\ U!Resolved(r))
-----------------------------------------------------------------------------
\* Every open connection to a server belongs to exactly one request or one place of the
\* keepalive cache: none is leaked, closed under its owner or shared, however requests
\* retry and end.
ConnectionsOwned == U!ConnectionsOwned

\* Every request that was begun ends, whatever servers and client do, unless it is left
\* to one of the two untimed waits.
RequestsEnd == focus = "upstream" => U!RequestsEnd
=============================================================================
