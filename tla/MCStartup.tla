----------------------------- MODULE MCStartup ------------------------------
(* A small instance of Startup for TLC.                                    *)
EXTENDS Startup

\* Every worker has a main thread, the first one another in its pool.
MCCallers == {<<1, "main">>, <<1, "pool">>, <<2, "main">>}
=============================================================================
