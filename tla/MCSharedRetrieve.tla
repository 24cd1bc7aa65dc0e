-------------------------- MODULE MCSharedRetrieve --------------------------
EXTENDS SharedRetrieve, TLC

\* A checkpointed load beside a remote fill's agreement; a sparse load of
\* two shared groups; one whose indexer group each rank loads directly, with
\* a single failure.
MCScenarios == {[kind |-> <<"checkpoint", "fill">>, spent |-> 0],
                [kind |-> <<"plain">>, spent |-> 0],
                [kind |-> <<"direct">>, spent |-> 1]}

=============================================================================
