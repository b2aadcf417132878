------------------------ MODULE MCRemoteConfigurator ------------------------
(* TLC instance of RemoteConfigurator: a connector, a gRPC connector, and one  *)
(* behind it.                                                                  *)
EXTENDS RemoteConfigurator
Order == <<"a", "g", "b">>
\* The larger instance with two connectors that start: safety alone, under Spec.
OrderOfTwo == <<"a", "b", "g">>
=============================================================================
