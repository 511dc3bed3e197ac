-------------------------- MODULE MCShellDispatch --------------------------
(* An instance of ShellDispatch for TLC. *)
EXTENDS ShellDispatch

CONSTANT MaxTokens

Tokens == {"name", "pipe", "amp", "semi", "redir"}

\* Programs and pipelines, replays in every process, alone, in a pipeline and with a
\* redirection, and a line that is not accepted.
MCLaterLines ==
    { <<"name">>, <<"name", "semi", "name", "pipe", "name">>,
      <<"name", "semi", "name", "amp", "name">>, <<"execute", "semi", "name">>, <<"execute", "amp">>,
      <<"name", "pipe", "execute">>, <<"name", "amp", "semi", "name">> }

\* At first every line of up to MaxTokens tokens, and some longer ones, that have more
\* arguments, atoms or groups than the arrays hold, or as many.
MCLines ==
    MCLaterLines \cup UNION {[1 .. n -> Tokens] : n \in 0 .. MaxTokens} \cup
    { <<"name", "semi", "execute", "amp", "name">>, <<"name", "pipe", "name", "amp", "name">>,
      <<"name", "amp", "name", "semi", "name">>, <<"name", "pipe", "name", "redir", "pipe">>,
      <<"name", "amp", "name", "semi", "name", "semi", "name">>,
      <<"name", "semi", "name", "semi", "name", "semi", "name", "semi">>,
      <<"name", "semi", "name", "semi", "name", "semi", "name", "semi", "name">>,
      <<"name", "pipe", "name", "pipe", "name", "pipe", "name">>,
      <<"name", "pipe", "name", "pipe", "name", "pipe", "name", "pipe", "name">>,
      <<"execute", "redir", "name", "amp", "name">>,
      <<"name", "redir", "name", "pipe", "name", "name", "redir", "name", "amp">> }
=============================================================================
