------------------------------ MODULE MCCloud ------------------------------
EXTENDS Cloud, TLC

From(kind, field) == [kind |-> kind, record |-> kind, field |-> field]

\* A secret of each store kind with and without the cache, a profile, a key,
\* one object, and two properties of one item; the longest-lived maps are
\* looked at one kind at a time.
MCWorlds ==
    {[sources |-> {From("azure-kv", "v")}, ttl |-> 2, lives |-> {1, 4}, horizon |-> 4],
     [sources |-> {From("aws-sm", "v")}, ttl |-> 2, lives |-> {}, horizon |-> 4],
     [sources |-> {From("aws-sm", "v"), From("s3", "v")}, ttl |-> 0, lives |-> {}, horizon |-> 4],
     [sources |-> {From("appconfig", "v")}, ttl |-> 2, lives |-> {}, horizon |-> 3],
     [sources |-> {From("azappconfig", "v")}, ttl |-> 2, lives |-> {4}, horizon |-> 2],
     [sources |-> {From("cosmos", "config"), From("cosmos", "team")}, ttl |-> 2, lives |-> {4}, horizon |-> 2]}

\* Reads differ in nothing but their names.
Symmetry == Permutations(Readers)
=============================================================================
