--------------------------- MODULE MCHostExchange ---------------------------
(* TLC instance of HostExchange: payloads of two sizes, so that ranks can  *)
(* diverge, and two payloads of the same size, so that a stale one shows.  *)
EXTENDS HostExchange

MCPayloads == {<<>>, <<1>>, <<2>>}

=============================================================================
