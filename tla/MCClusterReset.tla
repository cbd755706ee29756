---------------------------- MODULE MCClusterReset ----------------------------
(* Two gateways, one accelerator, two buckets.                                  *)
EXTENDS ClusterReset, TLC

CONSTANTS b1, b2, g1, g2, a1

AnyRequest == {"names", "verify", "existing", "each", "user", "delete", "index", "purge",
               "prepareds", "indexes", "ram", "create", "adduser", "ready"}

AnyStep == {"stopsg", "stopac", "wipesg", "wipeac", "ready", "block", "startsg", "startac", "pindex",
            "push"}

\* A test that wants all buckets in channel cache mode, one that wants the first in
\* distributed index mode, and one that creates the database on it itself.
MCConfigs ==
    {[mode |-> "cc", buckets |-> {b1, b2}, sgdb_creation |-> TRUE],
     [mode |-> "di", buckets |-> {b1}, sgdb_creation |-> TRUE],
     [mode |-> "cc", buckets |-> {b1}, sgdb_creation |-> FALSE]}

\* The gateways are alike.
Alike == Permutations({g1, g2})
===============================================================================
