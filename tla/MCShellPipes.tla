---------------------------- MODULE MCShellPipes ----------------------------
(* An instance of ShellPipes for TLC. *)
EXTENDS ShellPipes

Plain == [in |-> <<>>, out |-> <<>>]
From(sizes) == [in |-> sizes, out |-> <<>>]
To(modes) == [in |-> <<>>, out |-> modes]

\* Files that fit into a pipe, files that do not, and files that are missing;
\* a file in the middle of a pipeline cuts it.
MCPrograms ==
    { Plain, From(<<1, 1>>), From(<<2, 1>>), From(<<1, Missing, 1>>),
      To(<<">">>), To(<<">", ">>">>), To(<<">", "missing">>), [in |-> <<2>>, out |-> <<">>", ">">>] }

\* One program (execute_command), two of any kind, and three.
MCPipelines ==
    {<<p>> : p \in MCPrograms} \cup {<<p, q>> : p, q \in MCPrograms} \cup
    { <<Plain, Plain, Plain>>, <<Plain, From(<<2>>), Plain>>, <<Plain, Plain, From(<<3>>)>>,
      <<From(<<1, 1>>), Plain, To(<<">", ">>">>)>>, <<Plain, To(<<">">>), Plain>> }
=============================================================================
