--------------------------- MODULE MCHarvestRuns ---------------------------
\* Two chunks: the first stores a new record and merges into one that is there,
\* the second, which is the final one, deletes a record.
EXTENDS HarvestRuns

Request(id, op, strategy) == [id |-> id, op |-> op, strategy |-> strategy]
MCChunks ==
    [c \in {"a", "b"} |->
        IF c = "a" THEN <<Request("y", "upsert", "replace"), Request("x", "upsert", "merge")>>
        ELSE <<Request("z", "delete", "replace")>>]
MCStore == {[oid |-> <<"old", 0, 1>>, id |-> "x", value |-> <<"old">>],
            [oid |-> <<"old", 0, 2>>, id |-> "z", value |-> <<"old">>]}
MCFinal == {"b"}
=============================================================================
