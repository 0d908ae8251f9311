-------------------------- MODULE MCRequestIntake --------------------------
(***************************************************************************)
(* A small instance of RequestIntake for TLC.                              *)
(***************************************************************************)
EXTENDS RequestIntake

MCHeaders == <<"x-claude-code-session-id", "x-session-id">>

\* The container of the endpoint, with or without the proxy's own.
MCPresences == {{at} : at \in {Containers[2], Containers[3]}}
                 \cup {{Containers[1], at} : at \in {Containers[2], Containers[3]}}

\* The same headers in each container, but for what the proxy's own adds or has instead.
Carried(extra, headers) ==
    [at \in ToSet(Containers) |-> IF at = Containers[1] THEN extra @@ headers ELSE headers]

Nothing == <<>>

Env == Text(<<"cwd:", "vault", "tools">>)
Chat(alias, opening) ==
    [alias |-> alias, headers |-> Carried(Nothing, Nothing), topLevel |-> FALSE,
     system |-> Blocks(<<Text(<<"be">>), Text(<<"kind">>)>>), opening |-> opening]

\* "code" is Claude Code behind a gateway, in a mission-critical repository; "gate" sends
\* the generic header, of which the proxy's own container has another value, and names its
\* tier; the others are known by what they say: "deep" says in nested blocks what "chat"
\* says up to the limit, "other" has another API key; "title" is the housekeeping of "code".
MCShape ==
    [c \in {"code", "gate", "chat", "deep", "other", "title"} |->
        CASE c = "code" ->
               [alias |-> "k", topLevel |-> TRUE, system |-> Env, opening |-> Text(<<"fix">>),
                headers |-> Carried("x-session-id" :> "gw", "x-claude-code-session-id" :> "s1")]
          [] c = "title" ->
               [alias |-> "k", topLevel |-> TRUE, system |-> Text(<<"title">>),
                opening |-> Text(<<"fix">>),
                headers |-> Carried(Nothing, "x-claude-code-session-id" :> "s1")]
          [] c = "gate" ->
               [Chat("k", Text(<<"fix">>)) EXCEPT
                  !.headers = Carried("x-session-id" :> "gw",
                                      "x-lite-tier" :> "high" @@ "x-session-id" :> "s2")]
          [] c = "chat" -> Chat("k", Text(<<"fix", "that", "now">>))
          [] c = "deep" -> Chat("k", Blocks(<<Image, Text(<<"fix">>),
                                              Blocks(<<Text(<<"that">>), Text(<<"too">>)>>)>>))
          [] c = "other" -> Chat("k2", Text(<<"fix", "that">>))]

\* What is said, and the blocks of it, to the depth that "deep" nests them.
WithBlocks(contents) == contents \cup UNION {ToSet(content.parts) : content \in contents}

MCContents ==
    WithBlocks(WithBlocks({MCShape[c].system : c \in DOMAIN MCShape}
                            \cup {MCShape[c].opening : c \in DOMAIN MCShape} \cup {Summary, Later}))

MCNesting[content \in MCContents] ==
    IF content.parts = <<>> THEN 0 ELSE 1 + Max({MCNesting[b] : b \in ToSet(content.parts)})

MCSessionIds == {"s1", "s2", "gw"}

MCConversations == DOMAIN MCShape
=============================================================================
