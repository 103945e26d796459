--------------------------- MODULE MCMockedBackend ---------------------------
(* Instances of MockedBackend for TLC. *)
EXTENDS MockedBackend, TLC

ShortTimelines ==
    [json  |-> {<<"server_error", "delayed_valid">>},
     rules |-> {<<"redirect", "disconnect">>}]

RequestThreads == Permutations(Threads)
=============================================================================
