---------------------------- MODULE MCPipeService ----------------------------
(***************************************************************************)
(* The topic is the byte 'A', the fifos of the plugins are named p and q.  *)
(* The payloads hold the bytes that are doubled, alone, in pairs and at    *)
(* the end, and an '@'.                                                    *)
(***************************************************************************)
EXTENDS PipeService

CONSTANTS p1, p2

NamesOfFifos == (p1 :> 112) @@ (p2 :> 113)
OneName == (p1 :> 112)

OneTopic == {<<65>>}
SomePayloads == {<<0>>, <<255, 0, 120, 121>>, <<64, 255>>}
FewPayloads == {<<0>>, <<255, 64>>}

\* Every plugin registers for the topic, as the server expects it.
Subscriptions == {<<65, AT, 112>>, <<65, AT, 113>>}
OneSubscription == {<<65, AT, 112>>}

\* What TMQPlugin::Register sends.
FifoOnly == {<<112>>}

NoTopics == {}

LongPayloads == {<<0, 0, 0, 0, 0, 0, 0>>}
=============================================================================
