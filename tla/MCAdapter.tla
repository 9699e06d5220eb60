------------------------------ MODULE MCAdapter ------------------------------
(***************************************************************************)
(* Policy files for two of the Boolean rules, the revset, the version and  *)
(* an unknown key, and listings of two ids; of four lines three are kept.  *)
(***************************************************************************)
EXTENDS Adapter

Other(k) == [kind |-> k, key |-> "", val |-> ""]
Pair(k, v) == [kind |-> "pair", key |-> k, val |-> v]

MCLine ==
  {Other("skip"), Other("malformed"), Pair("allow_new_bookmark", "true")}
  \cup {Pair("schema_version", v) : v \in {"1", "2"}}
  \cup {Pair("allow_new_bookmarks", v) : v \in {"true", "FALSE", "yes"}}
  \cup {Pair("allow_non_fast_forward", v) : v \in {"True", "false"}}
  \cup {Pair("private_commits", v) : v \in {"wip", " ", ""}}

MCRowLine ==
  {Other("skip"), Other("malformed"), Pair("b", "rest")}
  \cup {Pair("a", v) : v \in {"rest", "re"}}
=============================================================================
