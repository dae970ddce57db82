------------------------------ MODULE MCGoods -------------------------------
(* Values of the constants of CatalogSeed, alone and in MCSeeds.           *)

\* One item the file describes well, one that names an unknown type, and two
\* preconfigured ones.
Goods ==
    {[file |-> TRUE, name |-> "hoodie", brand |-> 2, type |-> 1],
     [file |-> TRUE, name |-> "pin", brand |-> 1, type |-> 3],
     [file |-> FALSE, name |-> "hoodie", brand |-> 2, type |-> 2],
     [file |-> FALSE, name |-> "mug", brand |-> 2, type |-> 1]}

AllDeployments == [underK8s : BOOLEAN, useFile : BOOLEAN]
Preconfigured  == {[underK8s |-> TRUE, useFile |-> FALSE]}
=============================================================================
