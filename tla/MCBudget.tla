------------------------------ MODULE MCBudget ------------------------------
(* Small instances of Budget: a home with a project and credentials in it,  *)
(* two hosts of a domain, and the grants that tell them apart.              *)
EXTENDS Budget

MCPath   == {"home", "proj", "aws"}
MCWithin == {<<p, p>> : p \in MCPath} \union {<<"home", "proj">>, <<"home", "aws">>}
MCCredential == [p \in MCPath |-> IF p = "aws" THEN {"aws"} ELSE {}]
MCConstraint == {<<"to", "corp">>, <<"to", "org">>, <<"cc", "corp">>}

FsGrants  == {<<"fs", "any", {}, {}>>, <<"fs", "read", {}, {}>>,
              <<"fs", "read", {"home"}, {}>>, <<"fs", "read", {"proj"}, {1}>>,
              <<"fs", "write", {"home"}, {2}>>}
AwsGrant  == <<"fs", "read", {"aws"}, {}>>
NetGrants == {<<"net", {}, {}, {}>>, <<"net", {}, {}, {1}>>,
              <<"net", {<<"*", "d">>}, {}, {}>>,
              <<"net", {<<"a", "d">>}, {443}, {2}>>,
              <<"net", {<<"a", "d">>}, {}, {}>>}
OtherGrants == {<<"ffi", {}>>, <<"ffi", {"math"}>>, <<"io">>}
Named     == {<<"tool", {"s"}, {}, {}>>, <<"tool", {"s"}, {}, {1}>>,
              <<"tool", {"s"}, {<<"to", "corp">>}, {}>>,
              <<"tool", {"s"}, {<<"to", "org">>}, {}>>,
              <<"tool", {"s"}, {<<"cc", "corp">>}, {}>>}
AnyTool   == {<<"tool", {}, {}, {}>>, <<"tool", {}, {}, {2}>>}
AllGrants == FsGrants \union {AwsGrant} \union NetGrants \union OtherGrants
               \union Named \union AnyTool

Both(S, T) == [r \in {"ceiling", "asked"} |-> IF r = "ceiling" THEN S ELSE T]
Everything == Both(AllGrants, AllGrants)
ToolsOnly  == Both(Named \union AnyTool, Named \union AnyTool)

\* What is written together, how many grants of it, and how often what it
\* grants is done: any four grants, for what they mean; a ceiling and a budget
\* of files and hosts; and a ceiling and a budget of tools.
Alphabets == {
  [items |-> Both({}, AllGrants), most |-> 4, ops |-> 0],
  [items |-> Both(FsGrants \union NetGrants \union {<<"io">>},
                  FsGrants \union {AwsGrant} \union NetGrants
                    \union {<<"ffi", {"math"}>>, <<"io">>}),
   most |-> 2, ops |-> 2],
  [items |-> ToolsOnly, most |-> 2, ops |-> 3]}

Small == \E a \in Alphabets :
           /\ \A r \in DOMAIN written : /\ written[r] \subseteq a.items[r]
                                        /\ Cardinality(written[r]) <= a.most
           /\ \A k \in Kinds : counts[k] <= a.ops

MCSpec == Init /\ [][Next /\ Small']_vars
=============================================================================
