----------------------------- MODULE MCRedisKeys -----------------------------
(* Keys with the prefixes 1 and 2, without one, and with the name of the     *)
(* latter group for one; strings and one type that merges.  The rests 1,     *)
(* 2, 3 are "1", "1:1", "1:1:1".                                             *)
EXTENDS RedisKeys

MCTexts == 0..2
MCRests == 1..3
MCNoPrefix == 0
MCJoined == (<<1, 1>> :> 2) @@ (<<1, 2>> :> 3)
MCNewNames == [text : 0..2, rest : {0}] \cup {[text |-> 1, rest |-> 1]}
MCMergeTypes == {"set"}
MCItems == {"x", "y"}
MCSkips == {-1, 0, 1, 3}
MCLimits == {0, 1}

Str(items) == [type |-> "string", items |-> items, expires |-> FALSE]
Set(items) == [type |-> "set", items |-> items, expires |-> TRUE]

MCDocs ==
    [type : {"string", "set"}, items : {{"x"}}, ttl : {"absent", "clear", "set"}]
    \cup {[type |-> "set", items |-> {}, ttl |-> "set"],
          [type |-> "string", items |-> {"x"}, ttl |-> "fraction"],
          [type |-> "string", items |-> {"x"}, ttl |-> "invalid"],
          [type |-> "invalid", items |-> {}, ttl |-> "absent"]}

Filled(S) == [k \in [text : 0..2, rest : 0..3] |->
    IF k \notin S THEN [type |-> "none"]
    ELSE IF k.rest = 1 THEN Set({"y"}) ELSE Str({"y"})]

\* Every set of at most three keys of five, and two that have the name of
\* the group without a prefix for one; those under ":1" are expiring sets.
MCStarts ==
    {Filled(S) : S \in {T \in SUBSET ([text : 1..2, rest : 0..1] \cup {[text |-> 1, rest |-> 2]}) :
                            Cardinality(T) <= 3}}
    \cup {Filled(S) : S \in {[text : {0}, rest : 0..1],
                             {[text |-> 0, rest |-> 1], [text |-> 1, rest |-> 0]}}}

MCOtherValues == {[type |-> "none"], Str({"y"}), Set({"y"})}
==============================================================================
